---- MODULE Spec2Model ----
(***************************************************************************)
(* Model of the judgment worker (devolt-judgment-worker).                  *)
(*                                                                         *)
(*   Spec       one invocation of worker/helpers.py async_execute_code:    *)
(*              the supervisor coroutine, the two async_handle_output      *)
(*              readers, the handle_webhook_response tasks, the sandbox    *)
(*              process with its two pipes and the webhook receiver.       *)
(*   ParseSpec  the line classification of async_handle_output applied to  *)
(*              one line drawn from a wide set of sandbox lines.           *)
(*   JudgeSpec  create_judgment_from_verdicts applied to one verdict       *)
(*              sequence drawn from the verdicts the worker can build.     *)
(*                                                                         *)
(* Encoding.  Python None is None (-1) for optional numbers and NoStr for  *)
(* optional strings and enum members.  memory_usage_mb is kept in tenths   *)
(* of a megabyte (1.5 MB = 15), which preserves max and equality.          *)
(* A webhook outcome 0 stands for a timeout or transport error; any other  *)
(* outcome is the HTTP status of the response.                             *)
(***************************************************************************)
EXTENDS Integers, Sequences, FiniteSets, TLC

VARIABLES
    pc,            \* position of the supervisor coroutine async_execute_code
    cancelAt,      \* the await (272: "spawn", 300: "gather") whose cancellation takes several
                   \* steps of the loop and has begun ("none" otherwise)
    proc,          \* sandbox process at the OS: "none", "running", "exited"
    exitStatus,    \* what the child watcher will report for the sandbox (None while it runs)
    returncode,    \* sandbox_proc.returncode (None until asyncio has processed the exit)
    pipe,          \* per stream: lines written by the sandbox, not yet read
    budget,        \* number of lines the sandbox may still write
    pipeOpen,      \* per stream: the pipe transport has not seen EOF yet
    closed,        \* subprocess transport finished (its _proc is None)
    rstate,        \* per stream: state of the async_handle_output task
    unexpected,    \* per stream: the reader's unexpected_output list
    verdicts,      \* the verdicts list shared by supervisor and readers
    handlers,      \* handle_webhook_response tasks, one per parsed verdict
    snapshot,      \* number of handler tasks in the tasks list given to gather
    cleanup,       \* cleanup_job_and_return_event.is_set()
    timedOut,      \* is_sandbox_timed_out
    final,         \* the judgment dispatched as the final event (or NoJudgment)
    aggResult,     \* outcome of create_judgment_from_verdicts in this run
    sbSent,        \* a sandbox-level verdict was dispatched as TestCaseResult
    sbFailed,      \* ... and its dispatch returned a status other than 200
    perCaseFailed, \* some per-case dispatch returned a status other than 200
    readerRaised,  \* per stream: the reader entered its except block
    errorsSent,    \* number of Error events dispatched
    deleteCalls,   \* number of job_repository.delete calls
    cleanupAtCheck,\* what is_set() returned at helpers.py 303 ("unchecked" before)
    scratch,       \* the TemporaryDirectory: "none", "present", "removed"
    finalCode,     \* status returned by the dispatch of the final judgment
    failure,       \* what made the supervisor leave by an exception ("none" if nothing)
    nTests,        \* len(test_cases) of the job's challenge
    stopFlag,      \* job.stop_flag of the job handed to the supervisor
    jobStored,     \* the job's record is in the job store
    dlIn,          \* DeadlineSpec: test-case count, limits and language of a job
    dlOut,         \* DeadlineSpec: sandbox_time_limit computed for them
    lineIn,        \* ParseSpec: the line under classification
    lineOut,       \* ParseSpec: its classification
    jvIn,          \* JudgeSpec: the verdict sequence under aggregation
    jvOut,         \* JudgeSpec: the judgment built from it
    task,          \* TaskSpec: the queue task execute_code of worker/tasks.py
    runner,        \* RunnerSpec: a call of a runner's print function, its line as parsed
    hook,          \* HookSpec: an AsyncWebhookManager, its session and its dispatches
    retry,         \* RetrySpec: one call of the repository's _with_retry
    store,         \* StoreSpec: the key {userId}:{jobId} of the job store
    clock,         \* StoreSpec: the time of the job store, in seconds
    upd,           \* StoreSpec: one call of the repository's update
    dlt,           \* StoreSpec: the calls of the repository's delete
    rt,            \* RoundSpec: one Verdict, its as_dict and create_from_dict of it
    run            \* ExecSpec: one run of a per-language runner (sandbox app.py)

supVars   == <<pc, cancelAt, snapshot, timedOut, final, aggResult, sbSent, sbFailed, deleteCalls,
               cleanupAtCheck>>
procVars  == <<proc, exitStatus, returncode, pipe, budget, pipeOpen, closed>>
readVars  == <<rstate, unexpected, verdicts, handlers, readerRaised, errorsSent>>
hookVars  == <<cleanup, perCaseFailed>>
pureVars  == <<lineIn, lineOut, jvIn, jvOut>>
exitVars  == <<scratch, finalCode, failure>>
jobVars   == <<nTests, stopFlag, jobStored, dlIn, dlOut>>
storeVars == <<store, clock, upd, dlt>>
libVars   == <<task, runner, hook, retry, storeVars, rt, run>>
vars      == <<supVars, procVars, readVars, hookVars, pureVars, exitVars, jobVars, libVars>>

----------------------------------------------------------------------------
(* Bounds of the model. *)

MaxSandboxLines == 2
MaxJudgeLen == 3
MaxTests == 2
MaxDispatches == 2
MaxTime == 3
MaxDeletes == 2

(* Python None for optional numbers, and for optional strings / enums. *)
None == -1
NoStr == "<None>"

Streams == {"stdout", "stderr"}

(* Variant of Max that keeps the latest value. *)
MaxKeepsLast(a, b) == b

Max(a, b) == IF a >= b THEN a ELSE b

----------------------------------------------------------------------------
(* schema/verdict.py: Verdict *)

Verdict(passed, idx, mem, time, cause, detail) ==
    [passed |-> passed, test_case_index |-> idx, memory_usage_mb |-> mem,
     elapsed_time_ms |-> time, failure_cause |-> cause, failure_detail |-> detail]

NoVerdict == Verdict(FALSE, None, None, None, NoStr, NoStr)

(* helpers.py 313-317 and 322-326: the sandbox-level verdicts.  The two    *)
(* details stand for the Korean messages of the source, in ASCII.          *)
SandboxTimeoutVerdict ==
    Verdict(FALSE, None, None, None, "SANDBOX_TIMEOUT", "time limit exceeded")
SandboxOomVerdict ==
    Verdict(FALSE, None, None, None, "SANDBOX_OUT_OF_MEMORY", "memory limit exceeded")

SandboxCauses == {"SANDBOX_TIMEOUT", "SANDBOX_OUT_OF_MEMORY"}

----------------------------------------------------------------------------
(* A line of sandbox output, as json.loads would see it.                   *)
(*   kind      "object" | "nonobject" | "nonjson" | "undecodable"| "blank" *)
(*   status    result.get('status'): NoStr when absent, "<int>" when the   *)
(*             value is not a string                                       *)
(*   passed    result.get('passed'): "true" | "false" | NoStr (absent) |   *)
(*             "<int>" (not a bool)                                        *)
(*   exitKind  result.get('exitCode'): "int" | "numstr" (a string of       *)
(*             digits) | "badstr" (any other string) | "absent"            *)

Line(kind, status, passed, exitKind, exitVal, idx, time, mem, error) ==
    [kind |-> kind, status |-> status, passed |-> passed, exitKind |-> exitKind,
     exitVal |-> exitVal, testCaseIndex |-> idx, elapsedTimeMs |-> time,
     memoryUsageMb |-> mem, error |-> error]

ObjLine(status, passed, exitKind, exitVal, idx, time, mem, error) ==
    Line("object", status, passed, exitKind, exitVal, idx, time, mem, error)

RawLine(kind) == Line(kind, NoStr, NoStr, "absent", None, None, None, None, NoStr)

(* isinstance(error_status, str), isinstance(passed, bool) *)
IsStr(s) == s \notin {NoStr, "<int>"}
IsBool(p) == p \in {"true", "false"}

(* int(result.get('exitCode')): TypeError on None, ValueError on a string  *)
(* that is no integer literal; a string of digits converts.                *)
IntRaises(l) == l.exitKind \in {"absent", "badstr"}
IntOf(l) == l.exitVal

----------------------------------------------------------------------------
(* Variant of failure_reason_map with the 124 and 137 entries exchanged. *)
failure_reason_map_swapped(status, exit_code) ==
    IF exit_code = 137
    THEN (IF status = "compileError" THEN "COMPILE_TIMEOUT" ELSE "RUNTIME_TIMEOUT")
    ELSE IF exit_code = 124
    THEN (IF status = "compileError" THEN "COMPILE_OUT_OF_MEMORY"
                                     ELSE "RUNTIME_OUT_OF_MEMORY")
    ELSE (IF status = "compileError" THEN "COMPILE_ERROR" ELSE "RUNTIME_ERROR")

(* helpers.py 177-188: failure_reason_map with its default *)
failure_reason_map(status, exit_code) ==
    IF exit_code = 124
    THEN (IF status = "compileError" THEN "COMPILE_TIMEOUT" ELSE "RUNTIME_TIMEOUT")
    ELSE IF exit_code = 137
    THEN (IF status = "compileError" THEN "COMPILE_OUT_OF_MEMORY"
                                     ELSE "RUNTIME_OUT_OF_MEMORY")
    ELSE (IF status = "compileError" THEN "COMPILE_ERROR" ELSE "RUNTIME_ERROR")

(* What the reader does with one line: "skip", "unexpected" (appended to   *)
(* unexpected_output), "raise" (an exception reaches the except block), or *)
(* "verdict" (appended to verdicts and dispatched).                        *)
Outcome(act, v) == [act |-> act, verdict |-> v]
Skip == Outcome("skip", NoVerdict)
Unexpected == Outcome("unexpected", NoVerdict)
Raise == Outcome("raise", NoVerdict)
Pending == Outcome("pending", NoVerdict)

(* helpers.py 171-191: an object with a string status *)
StatusVerdict(l) ==
    Verdict(FALSE,
            IF l.status = "compileError" THEN None ELSE l.testCaseIndex,
            None, None,
            failure_reason_map(l.status, IntOf(l)),
            l.error)

(* helpers.py 198-208: an object with a boolean passed *)
PassedVerdict(l) ==
    IF l.passed = "true"
    THEN Verdict(TRUE, l.testCaseIndex, l.memoryUsageMb, l.elapsedTimeMs, NoStr, NoStr)
    ELSE Verdict(FALSE, l.testCaseIndex, None, None, "WRONG_ANSWER", NoStr)

(* helpers.py 160-221: the body of the inner try for a stdout line *)
ParseStdout(l) ==
    IF l.kind = "nonjson" THEN Unexpected
    ELSE IF l.kind = "nonobject" THEN Unexpected
    ELSE IF IsStr(l.status)
    THEN IF l.status = "systemError" THEN Raise
         ELSE IF IntRaises(l) THEN Raise
         ELSE Outcome("verdict", StatusVerdict(l))
    ELSE IF IsBool(l.passed) THEN Outcome("verdict", PassedVerdict(l))
    ELSE Unexpected

(* Variant that parses the lines of both streams. *)
HandleLineBothStreams(stream_name, l) ==
    IF l.kind = "undecodable" THEN Raise
    ELSE IF l.kind = "blank" THEN Skip
    ELSE ParseStdout(l)

(* helpers.py 152-158 then 160-221: one iteration of the reader's loop *)
HandleLine(stream_name, l) ==
    IF l.kind = "undecodable" THEN Raise
    ELSE IF l.kind = "blank" THEN Skip
    ELSE IF stream_name = "stderr" THEN Unexpected
    ELSE ParseStdout(l)

----------------------------------------------------------------------------
(* schema/webhook_event/judgment.py 87-149: create_judgment_from_verdicts  *)

Judgment(kind, mem, time, cause, detail) ==
    [kind |-> kind, max_memory_usage_mb |-> mem, max_elapsed_time_ms |-> time,
     failure_cause |-> cause, failure_detail |-> detail]

NoJudgment == Judgment("none", None, None, NoStr, NoStr)
RaisedJudgment == Judgment("raised", None, None, NoStr, NoStr)
PassedJudgment(mem, time) == Judgment("passed", mem, time, NoStr, NoStr)
UnpassedJudgment(cause, detail) == Judgment("unpassed", None, None, cause, detail)

RECURSIVE JudgeLoop(_, _, _, _)
JudgeLoop(vs, i, max_mem, max_time) ==
    IF i > Len(vs) THEN PassedJudgment(max_mem, max_time)
    ELSE LET verdict == vs[i] IN
         IF ~verdict.passed
         THEN IF verdict.failure_cause = NoStr THEN RaisedJudgment
              ELSE UnpassedJudgment(verdict.failure_cause, verdict.failure_detail)
         ELSE IF verdict.memory_usage_mb = None \/ verdict.elapsed_time_ms = None
         THEN RaisedJudgment
         ELSE JudgeLoop(vs, i + 1, Max(max_mem, verdict.memory_usage_mb),
                        Max(max_time, verdict.elapsed_time_ms))

(* Variant that refuses an empty verdict list. *)
create_judgment_rejects_empty(vs) ==
    IF vs = <<>> THEN RaisedJudgment ELSE JudgeLoop(vs, 1, 0, 0)

(* Variant whose maxima start from None instead of zero. *)
create_judgment_unseeded(vs) == JudgeLoop(vs, 1, None, None)

create_judgment_from_verdicts(vs) == JudgeLoop(vs, 1, 0, 0)

----------------------------------------------------------------------------
(* worker/webhook_manager.py 41-69: what dispatch_webhook_callback returns *)
(* for an outcome of the POST: the status of a 2xx response, e.status of   *)
(* any other response, 500 on a timeout or transport error (outcome 0).    *)

WebhookOutcomes == {200, 201, 503, 0}

(* Variant that reports every failure as 500. *)
dispatch_webhook_callback_flat(outcome) == IF outcome \in {200, 201} THEN outcome ELSE 500

dispatch_webhook_callback(outcome) == IF outcome = 0 THEN 500 ELSE outcome

(* helpers.py 111: response_code != 200 *)
WebhookFailed(response_code) == response_code # 200

----------------------------------------------------------------------------
(* The sandbox of Spec: what it may write and how it may exit.             *)

PassA == ObjLine(NoStr, "true", "absent", None, 1, 50, 20, NoStr)
PassNoMetrics == ObjLine(NoStr, "true", "absent", None, 1, None, None, NoStr)
WrongAnswer == ObjLine(NoStr, "false", "absent", None, 1, None, None, NoStr)
RuntimeErr == ObjLine("runtimeError", NoStr, "int", 0, 2, None, None, "segmentation fault")
SystemErr == ObjLine("systemError", NoStr, "absent", None, None, None, None, "runner failed")
Junk == RawLine("nonjson")

StdoutLines == {PassA, PassNoMetrics, WrongAnswer, RuntimeErr, SystemErr, Junk}
StderrLines == {Junk}
LinesOf(s) == IF s = "stdout" THEN StdoutLines ELSE StderrLines

ExitCodes == {0, 137}

(* helpers.py 246: len(test_cases) of the job's challenge: none or one *)
TestCounts == {0, 1}

AnyNotPassed(vs) == \E i \in 1..Len(vs) : ~vs[i].passed

----------------------------------------------------------------------------
(* Variant that does not look at the cleanup event. *)
TerminationClassIgnoresCleanup(cleanup_set, vs, timed_out, rc) ==
    IF AnyNotPassed(vs) THEN "aggregate"
    ELSE IF timed_out THEN "timeout"
    ELSE IF rc = 137 THEN "oom"
    ELSE "aggregate"

(* Variant that records the sandbox-level failure even after a failure. *)
TerminationClassOverrides(cleanup_set, vs, timed_out, rc) ==
    IF cleanup_set THEN "abort"
    ELSE IF timed_out THEN "timeout"
    ELSE IF rc = 137 THEN "oom"
    ELSE "aggregate"

(* helpers.py 303-329: the branch the supervisor takes after the gather.   *)
TerminationClass(cleanup_set, vs, timed_out, rc) ==
    IF cleanup_set THEN "abort"
    ELSE IF AnyNotPassed(vs) THEN "aggregate"
    ELSE IF timed_out THEN "timeout"
    ELSE IF rc = 137 THEN "oom"
    ELSE "aggregate"

----------------------------------------------------------------------------
MainInit ==
    /\ pc = "prepare"
    /\ cancelAt = "none"
    /\ proc = "none"
    /\ exitStatus = None
    /\ returncode = None
    /\ pipe = [s \in Streams |-> <<>>]
    /\ budget = 0
    /\ pipeOpen = [s \in Streams |-> TRUE]
    /\ closed = FALSE
    /\ rstate = [s \in Streams |-> "none"]
    /\ unexpected = [s \in Streams |-> <<>>]
    /\ verdicts = <<>>
    /\ handlers = <<>>
    /\ snapshot = 0
    /\ cleanup = FALSE
    /\ timedOut = FALSE
    /\ final = NoJudgment
    /\ aggResult = "none"
    /\ sbSent = FALSE
    /\ sbFailed = FALSE
    /\ perCaseFailed = FALSE
    /\ readerRaised = [s \in Streams |-> FALSE]
    /\ errorsSent = 0
    /\ deleteCalls = 0
    /\ cleanupAtCheck = "unchecked"
    /\ scratch = "none"
    /\ finalCode = None
    /\ failure = "none"
    /\ jobStored = TRUE
    /\ nTests \in TestCounts

PureIdle ==
    /\ lineIn = [stream |-> "stdout", line |-> RawLine("blank")]
    /\ lineOut = Skip
    /\ jvIn = <<>>
    /\ jvOut = NoJudgment

DeadlineIdle ==
    /\ dlIn = [n |-> 0, base |-> 0, bonus |-> 0, language |-> "PYTHON3"]
    /\ dlOut = None

(* The variables of the other specifications at rest. *)
TaskStart ==
    [pc |-> "start", verdicts |-> <<>>, cleanup |-> FALSE, killed |-> FALSE,
     deletes |-> 0, errors |-> 0, result |-> "none", code |-> None]

TaskIdle == task = TaskStart

NoCall ==
    [fn |-> "none", lang |-> "python3", passed |-> FALSE, test_case_index |-> None,
     memory_used_mb |-> None, elapsed_time |-> None, runtime_error |-> NoStr,
     compile_error |-> NoStr, system_error |-> NoStr]

RunnerIdle == runner = [call |-> NoCall, out |-> Skip]

(* webhook_manager.py 13-25: the manager after __init__; no dispatch yet. *)
NoDispatch == [event |-> "none", session |-> "none", outcome |-> 0, posts |-> 0, code |-> None]

HookStart ==
    [session |-> "none", calls |-> 0, posts |-> 0, sent |-> {}, pending |-> {},
     orphaned |-> FALSE, last |-> NoDispatch]

HookIdle == hook = HookStart

(* repository 163-164: max_retries, and retry_interval in tenths of a     *)
(* second.                                                                 *)
max_retries == 3
retry_interval == 5

RetryStart(outcomes) ==
    [outcomes |-> outcomes, attempt |-> 1, interval |-> retry_interval, sleeps |-> <<>>,
     calls |-> 0, result |-> "pending", value |-> "none"]

RetryIdle == retry = RetryStart(<<>>)

(* The serialized job of an absent key, and the absent key. *)
NoJob == [stopFlag |-> FALSE, verdicts |-> "empty"]
Absent == [present |-> FALSE, value |-> NoJob, expireAt |-> 0]

(* The Job object and the locals of update before the call. *)
UpdStart ==
    [pc |-> "idle",
     patch |-> [stop_flag |-> "keep", last_test_case_index |-> None, verdicts |-> "keep"],
     seen |-> NoJob,
     job |-> [stop_flag |-> FALSE, verdicts |-> "empty", last_test_case_index |-> None],
     ttl_value |-> -2, ttlAt |-> 0, attempt |-> 1, interval |-> retry_interval, res |-> 0]

StoreIdle ==
    /\ store = Absent /\ clock = 0 /\ upd = UpdStart
    /\ dlt = [calls |-> 0, count |-> 0, raised |-> FALSE]

(* Python values of a Verdict's attributes and of a dict's items. *)
VNone == [t |-> "none", b |-> FALSE, n |-> 0, s |-> ""]
VBool(b) == [t |-> "bool", b |-> b, n |-> 0, s |-> ""]
VNum(n) == [t |-> "num", b |-> FALSE, n |-> n, s |-> ""]
VStr(s) == [t |-> "str", b |-> FALSE, n |-> 0, s |-> s]
VEnum(name) == [t |-> "FailureCause", b |-> FALSE, n |-> 0, s |-> name]

PyVerdict(passed, idx, mem, time, cause, detail) ==
    [passed |-> passed, test_case_index |-> idx, memory_usage_mb |-> mem,
     elapsed_time_ms |-> time, failure_cause |-> cause, failure_detail |-> detail]
NoPyVerdict == PyVerdict(VBool(FALSE), VNone, VNone, VNone, VNone, VNone)
RtStart(v) == [pc |-> "object", v |-> v, d |-> <<>>, back |-> [kind |-> "none", v |-> NoPyVerdict]]
RoundIdle == rt = RtStart(NoPyVerdict)

(* A runner before main() is called, and no runner in use. *)
RunStart(lang, n) ==
    [lang |-> lang, n |-> n, pc |-> "main", idx |-> 0, out |-> <<>>, code |-> None]
RunIdle == run = [RunStart("python3", 0) EXCEPT !.pc = "idle"]

LibIdle ==
    /\ TaskIdle /\ RunnerIdle /\ HookIdle /\ RetryIdle /\ StoreIdle /\ RoundIdle /\ RunIdle

(* The job was not cancelled before its delivery. *)
NotStopped == stopFlag = FALSE

Init == MainInit /\ NotStopped /\ PureIdle /\ DeadlineIdle /\ LibIdle

(* The supervisor is between the creation of the readers and its end. *)
Running == pc \in {"wait", "deadline", "gather", "sbverdict", "final"}

(* The finally of helpers.py 346-347 has closed the session of the         *)
(* webhook manager: the supervisor has left its try block.  A supervisor   *)
(* that was cancelled before its first step has not entered the block.     *)
SessionClosed == pc \in {"done", "raised", "cancelled"} /\ cancelAt # "start"

(* helpers.py 237-272: the scratch directory, the decoding of job.code,    *)
(* the lookups of the test cases and limits, and the spawn up to its       *)
(* await: the sandbox is forked and the supervisor is suspended in         *)
(* create_subprocess_exec.  An exception leaves the with block, which      *)
(* removes the directory, and then the finally.                            *)
PrepareFaults == {"none", "decode", "lookup", "spawn"}

Prepare(fault) ==
    /\ pc = "prepare"
    /\ IF fault = "none"
       THEN /\ pc' = "spawn"
            /\ proc' = "running"
            /\ budget' = MaxSandboxLines
            /\ scratch' = "present"
            /\ failure' = failure
       ELSE /\ pc' = "raised"
            /\ scratch' = "removed"
            /\ failure' = fault
            /\ UNCHANGED <<proc, budget>>
    /\ UNCHANGED <<cancelAt, snapshot, timedOut, final, aggResult, sbSent, sbFailed, deleteCalls,
                   cleanupAtCheck, exitStatus, returncode, pipe, pipeOpen, closed, readVars,
                   hookVars, pureVars, finalCode, jobVars, libVars>>

(* helpers.py 272-291 and 300: create_subprocess_exec returns, the two     *)
(* reader tasks are created and the supervisor awaits proc.wait() under    *)
(* wait_for.  Process.wait() returns at once when the returncode is set    *)
(* already, without a suspension: the supervisor goes on to gather over    *)
(* the tasks list, which holds the two readers only.                       *)
StartReaders ==
    /\ pc = "spawn"
    /\ cancelAt = "none"
    /\ rstate' = [s \in Streams |-> "reading"]
    /\ IF returncode # None
       THEN /\ pc' = "gather"
            /\ snapshot' = Len(handlers)
       ELSE /\ pc' = "wait"
            /\ snapshot' = snapshot
    /\ UNCHANGED <<cancelAt, timedOut, final, aggResult, sbSent, sbFailed, deleteCalls, cleanupAtCheck,
                   procVars, unexpected, verdicts, handlers, readerRaised, errorsSent,
                   hookVars, pureVars, exitVars, jobVars, libVars>>

(* The sandbox writes one line to one of its streams. *)
SandboxWrite(s, l) ==
    /\ proc = "running"
    /\ budget > 0
    /\ pipe' = [pipe EXCEPT ![s] = Append(@, l)]
    /\ budget' = budget - 1
    /\ UNCHANGED <<proc, exitStatus, returncode, pipeOpen, closed, supVars, readVars,
                   hookVars, pureVars, exitVars, jobVars, libVars>>

(* The sandbox exits on its own: the process is gone at the OS; asyncio    *)
(* has not seen it yet and sandbox_proc.returncode is still None.          *)
SandboxExit(code) ==
    /\ proc = "running"
    /\ proc' = "exited"
    /\ exitStatus' = code
    /\ budget' = 0
    /\ UNCHANGED <<returncode, pipe, pipeOpen, closed, supVars, readVars, hookVars, pureVars,
                   exitVars, jobVars, libVars>>

(* The status asyncio's child watcher reports for a child whose exit       *)
(* status was taken by someone else (waitpid fails with ECHILD).           *)
Reaped == 255

(* proc.kill() on a transport that is not finished, Popen.send_signal:     *)
(* poll(), then SIGKILL if the process is alive.  On a process that has    *)
(* ended while asyncio has not processed the exit, the poll takes the exit *)
(* status and the child watcher then reports 255, unless the watcher has   *)
(* taken the status already (a watcher with a thread of its own).  Nothing *)
(* is done once sandbox_proc.returncode is set.                            *)
Kill ==
    /\ proc' = "exited"
    /\ budget' = 0
    /\ IF proc = "running"
       THEN exitStatus' = -9
       ELSE IF returncode = None
       THEN exitStatus' \in {exitStatus, Reaped}
       ELSE exitStatus' = exitStatus
    /\ UNCHANGED <<returncode, pipe, pipeOpen, closed>>

(* asyncio base_subprocess _process_exited: the child watcher hands the    *)
(* exit to the transport and sandbox_proc.returncode is set.               *)
ChildExited ==
    /\ proc = "exited"
    /\ returncode = None
    /\ returncode' = exitStatus
    /\ UNCHANGED <<proc, exitStatus, pipe, budget, pipeOpen, closed, supVars, readVars,
                   hookVars, pureVars, exitVars, jobVars, libVars>>

(* The pipe transport of a stream reads EOF: the process is gone.  What    *)
(* was written and not yet read stays in the StreamReader buffer (pipe[s]) *)
(* and a reader still gets it, line by line, before readline returns b''.  *)
(* The transports are connected inside create_subprocess_exec, so the EOF  *)
(* may come while the supervisor is still suspended at 272.  The tasks of  *)
(* the loop do not end with the supervisor: they need no step of it.       *)
PipeEof(s) ==
    /\ proc = "exited"
    /\ pipeOpen[s]
    /\ pipeOpen' = [pipeOpen EXCEPT ![s] = FALSE]
    /\ UNCHANGED <<proc, exitStatus, returncode, pipe, budget, closed, supVars, readVars,
                   hookVars, pureVars, exitVars, jobVars, libVars>>

(* asyncio base_subprocess _try_finish: the exit is processed and every    *)
(* pipe is disconnected: the subprocess transport finishes (its _proc      *)
(* becomes None) and wakes proc.wait().                                    *)
TransportFinish ==
    /\ returncode # None
    /\ \A s \in Streams : ~pipeOpen[s]
    /\ ~closed
    /\ closed' = TRUE
    /\ UNCHANGED <<proc, exitStatus, returncode, pipe, budget, pipeOpen, supVars, readVars,
                   hookVars, pureVars, exitVars, jobVars, libVars>>

(* helpers.py 192-196: the dispatch of a TestCaseResult and the task that  *)
(* awaits it; after the finally the dispatch meets a closed session.       *)
NewHandler == IF SessionClosed THEN "unsent" ELSE "pending"

(* Variant that does not set the cleanup event. *)
ExceptBlockKeepsEvent(s) ==
    /\ readerRaised' = [readerRaised EXCEPT ![s] = TRUE]
    /\ IF closed
       THEN /\ rstate' = [rstate EXCEPT ![s] = "crashed"]
            /\ UNCHANGED <<procVars, cleanup, errorsSent>>
       ELSE /\ Kill
            /\ cleanup' = cleanup
            /\ errorsSent' = errorsSent + 1
            /\ rstate' = [rstate EXCEPT ![s] = "errwait"]

(* helpers.py 226-231: the except block of async_handle_output.  proc.kill *)
(* on a finished transport raises ProcessLookupError out of the block.     *)
ExceptBlock(s) ==
    /\ readerRaised' = [readerRaised EXCEPT ![s] = TRUE]
    /\ IF closed
       THEN /\ rstate' = [rstate EXCEPT ![s] = "crashed"]
            /\ UNCHANGED <<procVars, cleanup, errorsSent>>
       ELSE /\ Kill
            /\ cleanup' = TRUE
            /\ errorsSent' = errorsSent + 1
            /\ rstate' = [rstate EXCEPT ![s] = "errwait"]

(* Variant that puts a new verdict in front of the list. *)
ReadLinePrepends(s) ==
    /\ cancelAt # "gather"
    /\ rstate[s] = "reading"
    /\ pipe[s] # <<>>
    /\ LET l == Head(pipe[s])
           o == HandleLine(s, l)
       IN  IF o.act = "raise"
           THEN /\ ExceptBlock(s)
                /\ UNCHANGED <<unexpected, verdicts, handlers>>
           ELSE /\ pipe' = [pipe EXCEPT ![s] = Tail(@)]
                /\ unexpected' = IF o.act = "unexpected"
                                 THEN [unexpected EXCEPT ![s] = Append(@, l)]
                                 ELSE unexpected
                /\ verdicts' = IF o.act = "verdict"
                               THEN <<o.verdict>> \o verdicts ELSE verdicts
                /\ handlers' = IF o.act = "verdict"
                               THEN Append(handlers, NewHandler) ELSE handlers
                /\ UNCHANGED <<proc, exitStatus, returncode, budget, pipeOpen, closed,
                               rstate, readerRaised, errorsSent, cleanup>>
    /\ UNCHANGED <<supVars, perCaseFailed, pureVars,
                   exitVars, jobVars, libVars>>

(* helpers.py 147-221: the reader takes the next line of its stream. *)
ReadLine(s) ==
    /\ cancelAt # "gather"
    /\ rstate[s] = "reading"
    /\ pipe[s] # <<>>
    /\ LET l == Head(pipe[s])
           o == HandleLine(s, l)
       IN  IF o.act = "raise"
           THEN /\ ExceptBlock(s)
                /\ UNCHANGED <<unexpected, verdicts, handlers>>
           ELSE /\ pipe' = [pipe EXCEPT ![s] = Tail(@)]
                /\ unexpected' = IF o.act = "unexpected"
                                 THEN [unexpected EXCEPT ![s] = Append(@, l)]
                                 ELSE unexpected
                /\ verdicts' = IF o.act = "verdict"
                               THEN Append(verdicts, o.verdict) ELSE verdicts
                /\ handlers' = IF o.act = "verdict"
                               THEN Append(handlers, NewHandler) ELSE handlers
                /\ UNCHANGED <<proc, exitStatus, returncode, budget, pipeOpen, closed,
                               rstate, readerRaised, errorsSent, cleanup>>
    /\ UNCHANGED <<supVars, perCaseFailed, pureVars,
                   exitVars, jobVars, libVars>>

(* Variant that ends the reader without looking at unexpected_output. *)
ReaderEofForgets(s) ==
    /\ cancelAt # "gather"
    /\ rstate[s] = "reading"
    /\ ~pipeOpen[s]
    /\ pipe[s] = <<>>
    /\ rstate' = [rstate EXCEPT ![s] = "done"]
    /\ UNCHANGED <<procVars, readerRaised, errorsSent, cleanup>>
    /\ UNCHANGED <<unexpected, verdicts, handlers, supVars, perCaseFailed, pureVars,
                   exitVars, jobVars, libVars>>

(* helpers.py 148-150 and 223-224: readline returns b'' at end of stream. *)
ReaderEof(s) ==
    /\ cancelAt # "gather"
    /\ rstate[s] = "reading"
    /\ ~pipeOpen[s]
    /\ pipe[s] = <<>>
    /\ IF unexpected[s] # <<>>
       THEN ExceptBlock(s)
       ELSE /\ rstate' = [rstate EXCEPT ![s] = "done"]
            /\ UNCHANGED <<procVars, readerRaised, errorsSent, cleanup>>
    /\ UNCHANGED <<unexpected, verdicts, handlers, supVars, perCaseFailed, pureVars,
                   exitVars, jobVars, libVars>>

(* helpers.py 231: the awaited dispatch of the Error event completes; its  *)
(* status is not looked at.                                                *)
ErrorDispatched(s, outcome) ==
    /\ cancelAt # "gather"
    /\ rstate[s] = "errwait"
    /\ dispatch_webhook_callback(outcome) \in Int
    /\ rstate' = [rstate EXCEPT ![s] = "done"]
    /\ UNCHANGED <<unexpected, verdicts, handlers, readerRaised, errorsSent,
                   supVars, procVars, hookVars, pureVars,
                   exitVars, jobVars, libVars>>

(* helpers.py 91-115: handle_webhook_response for the i-th parsed verdict. *)
(* A dispatch that was called on a closed session has made no POST and     *)
(* returns 500 (webhook_manager.py 67-69).                                 *)
HandleWebhookResponse(i, outcome) ==
    /\ i \in 1..Len(handlers)
    /\ ~(cancelAt = "gather" /\ i <= snapshot)
    /\ handlers[i] \in {"pending", "unsent"}
    /\ handlers[i] = "unsent" => outcome = 0
    /\ handlers' = [handlers EXCEPT ![i] = "done"]
    /\ LET response_code == dispatch_webhook_callback(outcome) IN
       /\ perCaseFailed' = (perCaseFailed \/ response_code # 200)
       /\ IF WebhookFailed(response_code)
          THEN /\ IF returncode = None THEN Kill ELSE UNCHANGED procVars
               /\ cleanup' = TRUE
          ELSE UNCHANGED <<procVars, cleanup>>
    /\ UNCHANGED <<rstate, unexpected, verdicts, readerRaised, errorsSent, supVars, pureVars,
                   exitVars, jobVars, libVars>>

(* helpers.py 290-291: the timer of wait_for fires before the supervisor   *)
(* has resumed from the wait (also when the transport has finished and the *)
(* wake-up is already scheduled): the wait is cancelled and the supervisor *)
(* is scheduled to resume with TimeoutError.                               *)
Deadline ==
    /\ pc = "wait"
    /\ cancelAt = "none"
    /\ pc' = "deadline"
    /\ UNCHANGED <<cancelAt, snapshot, timedOut, final, aggResult, sbSent, sbFailed, deleteCalls,
                   cleanupAtCheck, procVars, readVars, hookVars, pureVars,
                   exitVars, jobVars, libVars>>

(* Variant that leaves the sandbox running at the deadline. *)
TimeoutKeepsSandbox ==
    /\ pc = "deadline"
    /\ cancelAt = "none"
    /\ IF closed
       THEN /\ pc' = "raised"
            /\ scratch' = "removed"
            /\ failure' = "kill"
            /\ UNCHANGED <<procVars, timedOut, snapshot>>
       ELSE /\ UNCHANGED procVars
            /\ timedOut' = TRUE
            /\ snapshot' = Len(handlers)
            /\ pc' = "gather"
            /\ UNCHANGED <<scratch, failure>>
    /\ UNCHANGED <<cancelAt, final, aggResult, sbSent, sbFailed, deleteCalls, cleanupAtCheck,
                   readVars, hookVars, pureVars, finalCode, jobVars, libVars>>

(* helpers.py 293-300: the supervisor resumes in the except clause: kill,  *)
(* then gather over the tasks list as it is at that moment.  On a          *)
(* transport that has finished since the timer fired, proc.kill() raises   *)
(* ProcessLookupError out of async_execute_code.                           *)
Timeout ==
    /\ pc = "deadline"
    /\ cancelAt = "none"
    /\ IF closed
       THEN /\ pc' = "raised"
            /\ scratch' = "removed"
            /\ failure' = "kill"
            /\ UNCHANGED <<procVars, timedOut, snapshot>>
       ELSE /\ Kill
            /\ timedOut' = TRUE
            /\ snapshot' = Len(handlers)
            /\ pc' = "gather"
            /\ UNCHANGED <<scratch, failure>>
    /\ UNCHANGED <<cancelAt, final, aggResult, sbSent, sbFailed, deleteCalls, cleanupAtCheck,
                   readVars, hookVars, pureVars, finalCode, jobVars, libVars>>

(* helpers.py 291 and 300: proc.wait() returns; gather over the tasks list *)
(* as it is at that moment.                                                *)
WaitReturns ==
    /\ pc = "wait"
    /\ cancelAt = "none"
    /\ closed
    /\ snapshot' = Len(handlers)
    /\ pc' = "gather"
    /\ UNCHANGED <<cancelAt, timedOut, final, aggResult, sbSent, sbFailed, deleteCalls, cleanupAtCheck,
                   procVars, readVars, hookVars, pureVars,
                   exitVars, jobVars, libVars>>

(* helpers.py 300: a gathered task ended with an exception; gather raises  *)
(* it and the supervisor leaves through the with block and the finally.    *)
(* A cancellation that the gather has passed on to its other tasks does    *)
(* not change that: the done-callback of the task that raised was          *)
(* scheduled before any of theirs and gives the gather its exception.      *)
GatherRaises ==
    /\ pc = "gather"
    /\ cancelAt \in {"none", "gather"}
    /\ \E s \in Streams : rstate[s] = "crashed"
    /\ pc' = "raised"
    /\ scratch' = "removed"
    /\ failure' = "gather"
    /\ UNCHANGED <<cancelAt, snapshot, timedOut, final, aggResult, sbSent, sbFailed, deleteCalls,
                   cleanupAtCheck, procVars, readVars, hookVars, pureVars,
                   finalCode, jobVars, libVars>>

(* helpers.py 331-342: aggregation and dispatch of the final judgment. *)
Aggregate(vs) ==
    LET judgment == create_judgment_from_verdicts(vs) IN
    /\ aggResult' = judgment.kind
    /\ IF judgment.kind = "raised"
       THEN /\ pc' = "raised"
            /\ final' = NoJudgment
            /\ scratch' = "removed"
            /\ failure' = "aggregate"
       ELSE /\ pc' = "final"
            /\ final' = judgment
            /\ UNCHANGED <<scratch, failure>>

(* repository 92-106 under _with_retry (156-176): what a call of           *)
(* job_repository.delete comes to: the key is removed, or the store has    *)
(* failed at each of the attempts and the last error is raised again.      *)
DeleteOutcomes == {"deleted", "raises"}

(* helpers.py 304 and 343: job_repository.delete(job.job_id, job.user_id)  *)
(* called by the supervisor.  An exception of it leaves the with block,    *)
(* which removes the directory, then the finally, and then                 *)
(* async_execute_code; the record stays in the store.                      *)
DeleteJob(d) ==
    /\ deleteCalls' = deleteCalls + 1
    /\ scratch' = "removed"
    /\ IF d = "deleted"
       THEN /\ jobStored' = FALSE
            /\ pc' = "done"
            /\ failure' = failure
       ELSE /\ jobStored' = jobStored
            /\ pc' = "raised"
            /\ failure' = "delete"

(* helpers.py 300-342: every gathered task is done; classification. *)
GatherReturns(d) ==
    /\ pc = "gather"
    /\ cancelAt = "none"
    /\ \A s \in Streams : rstate[s] = "done"
    /\ \A i \in 1..snapshot : handlers[i] = "done"
    /\ cleanupAtCheck' = IF cleanup THEN "set" ELSE "clear"
    /\ LET class == TerminationClass(cleanup, verdicts, timedOut, returncode) IN
       IF class = "abort"
       THEN /\ DeleteJob(d)
            /\ UNCHANGED <<verdicts, final, aggResult, sbSent>>
       ELSE IF class = "aggregate"
       THEN /\ d = "deleted"
            /\ Aggregate(verdicts)
            /\ UNCHANGED <<verdicts, sbSent, deleteCalls, jobStored>>
       ELSE /\ d = "deleted"
            /\ verdicts' = Append(verdicts, IF class = "timeout"
                                            THEN SandboxTimeoutVerdict
                                            ELSE SandboxOomVerdict)
            /\ sbSent' = TRUE
            /\ pc' = "sbverdict"
            /\ UNCHANGED <<final, aggResult, deleteCalls, scratch, failure, jobStored>>
    /\ UNCHANGED <<cancelAt, snapshot, timedOut, sbFailed, procVars, rstate, unexpected, handlers,
                   readerRaised, errorsSent, hookVars, pureVars, finalCode, nTests, stopFlag,
                   dlIn, dlOut, libVars>>

(* helpers.py 320 / 329 then 331-342: the awaited dispatch of the          *)
(* sandbox-level verdict completes; its status is not looked at.           *)
SandboxVerdictDispatched(outcome) ==
    /\ pc = "sbverdict"
    /\ cancelAt = "none"
    /\ sbFailed' = (dispatch_webhook_callback(outcome) # 200)
    /\ Aggregate(verdicts)
    /\ UNCHANGED <<cancelAt, snapshot, timedOut, sbSent, deleteCalls, cleanupAtCheck,
                   procVars, readVars, hookVars, pureVars, finalCode, jobVars, libVars>>

(* Variant that keeps the job when the final dispatch is not answered 200, *)
(* as tasks.py 175-178 does.                                               *)
FinalDispatchedKeepsOnFailure(outcome, d) ==
    /\ pc = "final"
    /\ cancelAt = "none"
    /\ finalCode' = dispatch_webhook_callback(outcome)
    /\ IF dispatch_webhook_callback(outcome) = 200
       THEN DeleteJob(d)
       ELSE /\ d = "deleted"
            /\ pc' = "done"
            /\ scratch' = "removed"
            /\ UNCHANGED <<deleteCalls, jobStored, failure>>
    /\ UNCHANGED <<cancelAt, snapshot, timedOut, final, aggResult, sbSent, sbFailed, cleanupAtCheck,
                   procVars, readVars, hookVars, pureVars, nTests, stopFlag, dlIn, dlOut, libVars>>

(* helpers.py 342-343: the awaited dispatch of the judgment completes and  *)
(* delete is called whatever the status; the judgment has been sent when   *)
(* the delete raises.                                                      *)
FinalDispatched(outcome, d) ==
    /\ pc = "final"
    /\ cancelAt = "none"
    /\ finalCode' = dispatch_webhook_callback(outcome)
    /\ DeleteJob(d)
    /\ UNCHANGED <<cancelAt, snapshot, timedOut, final, aggResult, sbSent, sbFailed, cleanupAtCheck,
                   procVars, readVars, hookVars, pureVars, nTests, stopFlag, dlIn, dlOut, libVars>>

(* helpers.py 300: a task that asyncio.gather awaits is not done, so that  *)
(* a cancel() of the gather finds something to cancel: a reader at its     *)
(* readline or at the dispatch of its except block, or a handler of the    *)
(* gathered list that waits for its response.                              *)
GatherPending ==
    \/ \E s \in Streams : rstate[s] \in {"reading", "errwait"}
    \/ \E i \in 1..snapshot : handlers[i] = "pending"

(* The with block (237) removes the directory and the finally (346-347)    *)
(* closes the webhook session: the supervisor ends with CancelledError.    *)
LeaveCancelled ==
    /\ pc' = "cancelled"
    /\ scratch' = "removed"
    /\ failure' = "cancelled"

(* task.cancel() reaches the supervisor while it is suspended at one of    *)
(* its awaits (helpers.py 272, 291, 300, 320, 329, 342), taken together    *)
(* with the supervisor's next step, in which CancelledError is raised at   *)
(* that await: nothing of the cancellation shows in between.               *)
(*   291, 320, 329, 342: the supervisor ends; at 291 only the wait is      *)
(*        cancelled, the readers and the handlers stay on the loop.        *)
(*   300  every gathered task is done: the gather has nothing to cancel    *)
(*        and the supervisor ends.                                         *)
(*   300  otherwise: the gather passes the cancellation on to every task   *)
(*        it awaits that is not done; the supervisor stays suspended until *)
(*        the gather has its outcome (Cancelled, GatherRaises).  When a    *)
(*        reader has raised already it depends on the loop's order: a      *)
(*        cancellation that comes before the gather's done-callback for    *)
(*        that reader is passed on in the same way; one that comes after   *)
(*        it, and before the supervisor's next step, finds the gather done *)
(*        and ends the supervisor, and the other tasks stay on the loop.   *)
(*   272  asyncio's _make_subprocess_transport closes the transport (the   *)
(*        pipes are closed and, while sandbox_proc.returncode is None, the *)
(*        sandbox is polled and killed) and awaits its _wait(), which      *)
(*        returns at once when the returncode is set; otherwise the        *)
(*        supervisor stays suspended until the transport has finished      *)
(*        (Cancelled).  No reader exists.                                  *)
(* helpers.py 237-271 has no await: a cancellation before 272 is one that  *)
(* comes before the first step of the coroutine, which then never runs:    *)
(* CancelledError is thrown into it at 234, outside its try and its with.  *)
Cancel ==
    /\ pc \in {"prepare", "spawn"} \/ Running
    /\ cancelAt = "none"
    /\ IF pc = "prepare"
       THEN /\ pc' = "cancelled"
            /\ failure' = "cancelled"
            /\ cancelAt' = "start"
            /\ UNCHANGED <<scratch, procVars>>
       ELSE IF pc = "spawn"
       THEN IF returncode # None
            THEN /\ LeaveCancelled
                 /\ UNCHANGED <<cancelAt, procVars>>
            ELSE /\ Kill
                 /\ cancelAt' = "spawn"
                 /\ UNCHANGED <<pc, scratch, failure>>
       ELSE IF pc = "gather" /\ GatherPending
            THEN \/ /\ cancelAt' = "gather"
                    /\ UNCHANGED <<pc, scratch, failure, procVars>>
                 \/ /\ \E s \in Streams : rstate[s] = "crashed"
                    /\ LeaveCancelled
                    /\ UNCHANGED <<cancelAt, procVars>>
            ELSE /\ LeaveCancelled
                 /\ UNCHANGED <<cancelAt, procVars>>
    /\ UNCHANGED <<snapshot, timedOut, final, aggResult, sbSent, sbFailed, deleteCalls,
                   cleanupAtCheck, readVars, hookVars, pureVars, finalCode, jobVars, libVars>>

(* helpers.py 147-231, cancelled through the gather: CancelledError is     *)
(* raised at the reader's await (readline at 148, the dispatch at 231); it *)
(* is no Exception, so the except block does not run and the task ends.    *)
ReaderCancelled(s) ==
    /\ cancelAt = "gather"
    /\ rstate[s] \in {"reading", "errwait"}
    /\ rstate' = [rstate EXCEPT ![s] = "cancelled"]
    /\ UNCHANGED <<unexpected, verdicts, handlers, readerRaised, errorsSent,
                   supVars, procVars, hookVars, pureVars, exitVars, jobVars, libVars>>

(* helpers.py 110, cancelled through the gather: the handler and the       *)
(* dispatch it awaits end with CancelledError.                             *)
HandlerCancelled(i) ==
    /\ cancelAt = "gather"
    /\ i \in 1..snapshot
    /\ handlers[i] = "pending"
    /\ handlers' = [handlers EXCEPT ![i] = "cancelled"]
    /\ UNCHANGED <<rstate, unexpected, verdicts, readerRaised, errorsSent,
                   supVars, procVars, hookVars, pureVars, exitVars, jobVars, libVars>>

(* CancelledError reaches the supervisor that Cancel left suspended: at    *)
(* 300 when the first gathered task has ended cancelled (the others end    *)
(* cancelled in steps of their own, before or after) and no gathered task  *)
(* had raised before the cancellation (GatherRaises), at 272 when the      *)
(* closed transport has finished.                                          *)
Cancelled ==
    /\ \/ pc = "spawn" /\ cancelAt = "spawn" /\ closed
       \/ /\ pc = "gather" /\ cancelAt = "gather"
          /\ \A s \in Streams : rstate[s] # "crashed"
          /\ \/ \E s \in Streams : rstate[s] = "cancelled"
             \/ \E i \in 1..snapshot : handlers[i] = "cancelled"
    /\ LeaveCancelled
    /\ UNCHANGED <<cancelAt, snapshot, timedOut, final, aggResult, sbSent, sbFailed,
                   deleteCalls, cleanupAtCheck, procVars, readVars, hookVars, pureVars,
                   finalCode, jobVars, libVars>>

Next ==
    \/ \E fault \in PrepareFaults : Prepare(fault)
    \/ StartReaders
    \/ \E s \in Streams : \E l \in LinesOf(s) : SandboxWrite(s, l)
    \/ \E code \in ExitCodes : SandboxExit(code)
    \/ ChildExited
    \/ \E s \in Streams : PipeEof(s)
    \/ TransportFinish
    \/ \E s \in Streams : ReadLine(s)
    \/ \E s \in Streams : ReaderEof(s)
    \/ \E s \in Streams : \E o \in WebhookOutcomes : ErrorDispatched(s, o)
    \/ \E i \in 1..MaxSandboxLines : \E o \in WebhookOutcomes : HandleWebhookResponse(i, o)
    \/ Deadline
    \/ Timeout
    \/ WaitReturns
    \/ GatherRaises
    \/ \E d \in DeleteOutcomes : GatherReturns(d)
    \/ \E o \in WebhookOutcomes : SandboxVerdictDispatched(o)
    \/ \E o \in WebhookOutcomes : \E d \in DeleteOutcomes : FinalDispatched(o, d)
    \/ Cancel
    \/ \E s \in Streams : ReaderCancelled(s)
    \/ \E i \in 1..MaxSandboxLines : HandlerCancelled(i)
    \/ Cancelled

Spec == Init /\ [][Next]_vars

----------------------------------------------------------------------------
(* ErrSpec: the same invocation with a sandbox that writes to stderr what  *)
(* it would write to stdout: a well-formed verdict line, a line that is no *)
(* JSON, bytes that are no UTF-8, a blank line.                            *)
ErrLinesOf(s) ==
    IF s = "stdout" THEN {PassA}
    ELSE {PassA, Junk, RawLine("undecodable"), RawLine("blank")}

ErrNext ==
    \/ \E fault \in PrepareFaults : Prepare(fault)
    \/ StartReaders
    \/ \E s \in Streams : \E l \in ErrLinesOf(s) : SandboxWrite(s, l)
    \/ \E code \in ExitCodes : SandboxExit(code)
    \/ ChildExited
    \/ \E s \in Streams : PipeEof(s)
    \/ TransportFinish
    \/ \E s \in Streams : ReadLine(s)
    \/ \E s \in Streams : ReaderEof(s)
    \/ \E s \in Streams : \E o \in WebhookOutcomes : ErrorDispatched(s, o)
    \/ \E i \in 1..MaxSandboxLines : \E o \in WebhookOutcomes : HandleWebhookResponse(i, o)
    \/ Deadline
    \/ Timeout
    \/ WaitReturns
    \/ GatherRaises
    \/ \E d \in DeleteOutcomes : GatherReturns(d)
    \/ \E o \in WebhookOutcomes : SandboxVerdictDispatched(o)
    \/ \E o \in WebhookOutcomes : \E d \in DeleteOutcomes : FinalDispatched(o, d)
    \/ Cancel
    \/ \E s \in Streams : ReaderCancelled(s)
    \/ \E i \in 1..MaxSandboxLines : HandlerCancelled(i)
    \/ Cancelled

ErrSpec == Init /\ [][ErrNext]_vars

----------------------------------------------------------------------------
(* ParseSpec: one iteration of the reader's loop on one line. *)

ParseStatuses == {NoStr, "<int>", "systemError", "compileError", "runtimeError", "other"}
ParsePassed == {NoStr, "<int>", "true", "false"}
ParseExits == {<<"absent", None>>, <<"badstr", None>>, <<"int", 0>>, <<"int", 1>>,
               <<"int", 124>>, <<"int", 137>>, <<"numstr", 124>>}
ParseIndexes == {None, 1, 2}
ParseMetrics == {<<None, None>>, <<50, 20>>}
ParseErrors == {NoStr, "syntax error"}

ParseLines ==
    { ObjLine(st, pa, ex[1], ex[2], ix, me[1], me[2], er) :
        st \in ParseStatuses, pa \in ParsePassed, ex \in ParseExits,
        ix \in ParseIndexes, me \in ParseMetrics, er \in ParseErrors }
    \cup { RawLine(k) : k \in {"nonobject", "nonjson", "undecodable", "blank"} }

ParseInit ==
    /\ MainInit
    /\ lineIn \in [stream : Streams, line : ParseLines]
    /\ lineOut = Pending
    /\ jvIn = <<>>
    /\ jvOut = NoJudgment
    /\ DeadlineIdle
    /\ NotStopped
    /\ LibIdle

ParseStep ==
    /\ lineOut = Pending
    /\ lineOut' = HandleLine(lineIn.stream, lineIn.line)
    /\ UNCHANGED <<lineIn, jvIn, jvOut, supVars, procVars, readVars, hookVars,
                   exitVars, jobVars, libVars>>

ParseSpec == ParseInit /\ [][ParseStep]_vars

----------------------------------------------------------------------------
(* JudgeSpec: create_judgment_from_verdicts on one verdict sequence.  The  *)
(* sequences are those the supervisor can hold at helpers.py 331: verdicts *)
(* parsed from stdout lines, then at most one sandbox-level verdict, which *)
(* is appended only when every parsed verdict passed.                      *)

JudgeLines ==
    { ObjLine(NoStr, "true", "absent", None, 1, 50, 15, NoStr),
      ObjLine(NoStr, "true", "absent", None, 2, 60, 20, NoStr),
      ObjLine(NoStr, "true", "absent", None, 3, 10, 30, NoStr),
      ObjLine(NoStr, "true", "absent", None, 1, None, None, NoStr),
      ObjLine(NoStr, "false", "absent", None, 1, None, None, NoStr),
      ObjLine("runtimeError", NoStr, "int", 0, 2, None, None, "segmentation fault"),
      ObjLine("compileError", NoStr, "int", 124, None, None, None, "syntax error") }

ParsedVerdicts == { ParseStdout(l).verdict : l \in JudgeLines }

SeqsUpTo(S, n) == UNION { [1..k -> S] : k \in 0..n }

JudgeInputs ==
    LET parsed == SeqsUpTo(ParsedVerdicts, MaxJudgeLen) IN
    parsed \cup { Append(vs, sb) : vs \in { p \in parsed : ~AnyNotPassed(p) },
                                   sb \in {SandboxTimeoutVerdict, SandboxOomVerdict} }

JudgeInit ==
    /\ MainInit
    /\ lineIn = [stream |-> "stdout", line |-> RawLine("blank")]
    /\ lineOut = Skip
    /\ jvIn \in JudgeInputs
    /\ jvOut = NoJudgment
    /\ DeadlineIdle
    /\ NotStopped
    /\ LibIdle

JudgeStep ==
    /\ jvOut = NoJudgment
    /\ jvOut' = create_judgment_from_verdicts(jvIn)
    /\ UNCHANGED <<jvIn, lineIn, lineOut, supVars, procVars, readVars, hookVars,
                   exitVars, jobVars, libVars>>

JudgeSpec == JudgeInit /\ [][JudgeStep]_vars

----------------------------------------------------------------------------
(* DeadlineSpec: the sandbox wall deadline of helpers.py 246-256, in       *)
(* tenths of a second.  The limits of a challenge and the bonus of a       *)
(* language come from configuration files and are drawn from small sets.   *)

Languages == {"JAVA17", "NODEJS20", "NODEJS20ESM", "PYTHON3", "C11", "CPP17"}
TimeBases == {5, 10, 20}
TimeBonuses == {0, 10}

(* config/test_case_config.py 26-28 *)
get_time_limit(base, bonus) == base + bonus

(* helpers.py 251-253 *)
compile_time_bonus(language) ==
    IF language \in {"JAVA17", "PYTHON3", "C11", "CPP17"} THEN 50 ELSE 0

(* The deadline of the synchronous supervisor, tasks.py 102. *)
sandbox_time_limit_flat(n, t, language) == n * t + 100

(* helpers.py 256 *)
sandbox_time_limit(n, t, language) == n * t + compile_time_bonus(language) + 30

DeadlineInit ==
    /\ MainInit
    /\ NotStopped
    /\ PureIdle
    /\ LibIdle
    /\ dlIn \in [n : 0..MaxTests, base : TimeBases, bonus : TimeBonuses,
               language : Languages]
    /\ dlOut = None

DeadlineStep ==
    /\ dlOut = None
    /\ dlOut' = sandbox_time_limit(dlIn.n, get_time_limit(dlIn.base, dlIn.bonus),
                                   dlIn.language)
    /\ UNCHANGED <<nTests, stopFlag, jobStored, dlIn, supVars, procVars, readVars, hookVars, pureVars,
                   exitVars, libVars>>

DeadlineSpec == DeadlineInit /\ [][DeadlineStep]_vars

----------------------------------------------------------------------------
(* TaskSpec: the queue task execute_code of worker/tasks.py, the           *)
(* synchronous supervisor.  Its reader threads (handle_output) and its     *)
(* send_webhook are not part of the sources; they are modelled by what the *)
(* specification says of the parser and of the dispatcher.                 *)
(*   task.pc       "start" | "run" (the wait of 104) | "join" (the joins   *)
(*                 of 113-114) | "joined" | "returned" | "raised"          *)
(*   task.verdicts the verdicts list of tasks.py 47                        *)
(*   task.cleanup  cleanup_job_event.is_set()                              *)
(*   task.killed   the wait of tasks.py 104 timed out and 109 killed       *)
(*   task.deletes  number of job_repository.delete calls                   *)
(*   task.errors   number of Error events sent                             *)
(*   task.result   overall_pass of the SubmissionResult sent ("none" if no *)
(*                 final result was sent), task.code the status returned   *)
(* TaskStart, the record before the task runs, is defined with Init.       *)

(* Verdicts a reader thread can append: objects of schema.Verdict. *)
TaskVerdicts ==
    { Verdict(TRUE, 1, 20, 50, NoStr, NoStr),
      Verdict(FALSE, 1, None, None, "WRONG_ANSWER", NoStr),
      Verdict(FALSE, None, None, None, "COMPILE_ERROR", "syntax error") }

TaskFaults == {"none", "decode", "lookup", "spawn"}

(* The dispatcher of the synchronous supervisor: the status of the         *)
(* response, 500 when there is none.                                       *)
send_webhook(outcome) == IF outcome = 0 THEN 500 ELSE outcome

(* tasks.py 30-72 with 119-135: preparation and spawn.  An exception is    *)
(* handled at 119-124: delete (121), then the Error event (123), then      *)
(* return; a delete that raises leaves the except block before the Error   *)
(* event is sent and execute_code raises.  The finally then reads          *)
(* tmp_code_path, which is unbound when the exception came before line 53, *)
(* and the NameError replaces the return.                                  *)
TaskPrepare(fault, d) ==
    /\ task.pc = "start"
    /\ fault = "none" => d = "deleted"
    /\ task' = IF fault = "none"
               THEN [task EXCEPT !.pc = "run"]
               ELSE IF d = "raises"
               THEN [task EXCEPT !.pc = "raised", !.deletes = @ + 1]
               ELSE [task EXCEPT !.pc = IF fault = "spawn" THEN "returned" ELSE "raised",
                                 !.deletes = @ + 1,
                                 !.errors = @ + 1]
    /\ UNCHANGED <<supVars, procVars, readVars, hookVars, pureVars, exitVars, jobVars,
                   runner, hook, retry, storeVars, rt, run>>

(* A reader thread appends the verdict of a line it has read. *)
TaskReaderVerdict(v) ==
    /\ task.pc \in {"run", "join"}
    /\ Len(task.verdicts) < MaxSandboxLines
    /\ task' = [task EXCEPT !.verdicts = Append(@, v)]
    /\ UNCHANGED <<supVars, procVars, readVars, hookVars, pureVars, exitVars, jobVars,
                   runner, hook, retry, storeVars, rt, run>>

(* A reader thread gives the job up (unexpected output, a refused          *)
(* per-case webhook): it sets the cleanup event.                           *)
TaskReaderAbort ==
    /\ task.pc \in {"run", "join"}
    /\ ~task.cleanup
    /\ task' = [task EXCEPT !.cleanup = TRUE]
    /\ UNCHANGED <<supVars, procVars, readVars, hookVars, pureVars, exitVars, jobVars,
                   runner, hook, retry, storeVars, rt, run>>

(* tasks.py 100-109: the wait for the sandbox ends, by its exit or by the  *)
(* deadline and the kill.  The reader threads go on until they are joined. *)
TaskWait(timeout) ==
    /\ task.pc = "run"
    /\ task' = [task EXCEPT !.pc = "join", !.killed = timeout]
    /\ UNCHANGED <<supVars, procVars, readVars, hookVars, pureVars, exitVars, jobVars,
                   runner, hook, retry, storeVars, rt, run>>

(* What the job store does to the deletes of tasks.py 117 and 121:         *)
(*   none     it answers                                                   *)
(*   delete   every attempt of _with_retry for the delete of 117 fails,    *)
(*            the delete of 121 is answered                                *)
(*   deletes  the delete of 121 fails as well                              *)
JoinFaults == {"none", "delete", "deletes"}

(* tasks.py 113-135: both readers have ended and the joins return; the job *)
(* is deleted if the cleanup event is set; the try block ends and the      *)
(* finally runs.  A delete that raises at 117 is handled at 119-124: the   *)
(* delete is called again (121), then the Error event is sent and the task *)
(* returns; when the second delete raises too, the exception leaves the    *)
(* except block before the Error event and execute_code raises.            *)
TaskJoin(fault) ==
    /\ task.pc = "join"
    /\ fault # "none" => task.cleanup
    /\ task' = IF ~task.cleanup THEN [task EXCEPT !.pc = "joined"]
               ELSE CASE fault = "none" ->
                           [task EXCEPT !.pc = "joined", !.deletes = @ + 1]
                      [] fault = "delete" ->
                           [task EXCEPT !.pc = "returned", !.deletes = @ + 2,
                                        !.errors = @ + 1]
                      [] OTHER ->
                           [task EXCEPT !.pc = "raised", !.deletes = @ + 2]
    /\ UNCHANGED <<supVars, procVars, readVars, hookVars, pureVars, exitVars, jobVars,
                   runner, hook, retry, storeVars, rt, run>>

(* tasks.py 137-180: the loop over the verdicts reads verdict.compile_error*)
(* which schema.Verdict does not have (AttributeError, outside the try);   *)
(* with no verdict the SubmissionResult is built with overall_pass True    *)
(* and sent, and delete is called if the answer is 200 (175-176); a       *)
(* delete that raises there leaves execute_code after the result was sent. *)
TaskReport(outcome, d) ==
    /\ task.pc = "joined"
    /\ (task.verdicts # <<>> \/ send_webhook(outcome) # 200) => d = "deleted"
    /\ task' = IF task.verdicts # <<>>
               THEN [task EXCEPT !.pc = "raised"]
               ELSE [task EXCEPT !.pc = IF send_webhook(outcome) = 200 /\ d = "raises"
                                        THEN "raised" ELSE "returned",
                                 !.result = "pass",
                                 !.code = send_webhook(outcome),
                                 !.deletes = IF send_webhook(outcome) = 200
                                             THEN @ + 1 ELSE @]
    /\ UNCHANGED <<supVars, procVars, readVars, hookVars, pureVars, exitVars, jobVars,
                   runner, hook, retry, storeVars, rt, run>>

TaskNext ==
    \/ \E fault \in TaskFaults : \E d \in DeleteOutcomes : TaskPrepare(fault, d)
    \/ \E v \in TaskVerdicts : TaskReaderVerdict(v)
    \/ TaskReaderAbort
    \/ \E timeout \in BOOLEAN : TaskWait(timeout)
    \/ \E fault \in JoinFaults : TaskJoin(fault)
    \/ \E o \in WebhookOutcomes : \E d \in DeleteOutcomes : TaskReport(o, d)

TaskInit ==
    /\ MainInit /\ NotStopped /\ PureIdle /\ DeadlineIdle
    /\ TaskIdle /\ RunnerIdle /\ HookIdle /\ RetryIdle /\ StoreIdle /\ RoundIdle /\ RunIdle

TaskSpec == TaskInit /\ [][TaskNext]_vars

(* StopSpec: the supervisor of Spec handed a job whose stop_flag may be    *)
(* set.                                                                    *)
StopInit == MainInit /\ stopFlag \in BOOLEAN /\ PureIdle /\ DeadlineIdle /\ LibIdle

StopSpec == StopInit /\ [][Next]_vars

----------------------------------------------------------------------------
(* RunnerSpec: one call of print_verdict or print_system_error of a        *)
(* per-language runner (sandbox/<lang>/src/app.py), the line it prints and *)
(* the classification of that line by async_handle_output.                 *)
(* A printed line is a prefix followed by json.dumps of a dict.  A JSON    *)
(* object is kept as two maps: s for its boolean and string members        *)
(* (NoStr for null), n for its numeric members (None for null).            *)

Runners == {"python3", "java17", "nodejs20"}

PyBool(b) == IF b THEN "true" ELSE "false"

(* sandbox/python3/src/app.py 9-25, java17 9-25, nodejs20 10-26.  The      *)
(* java17 runner names its time member elapsedTimeMs, the other two        *)
(* elapsedTimeSec.                                                         *)
print_verdict(c) ==
    [prefix |-> "VERDICT:",
     body |-> [s |-> [passed |-> PyBool(c.passed),
                      runtimeError |-> c.runtime_error,
                      compileError |-> c.compile_error],
               n |-> IF c.lang = "java17"
                     THEN [testCaseIndex |-> c.test_case_index,
                           memoryUsedMb |-> c.memory_used_mb,
                           elapsedTimeMs |-> c.elapsed_time]
                     ELSE [testCaseIndex |-> c.test_case_index,
                           memoryUsedMb |-> c.memory_used_mb,
                           elapsedTimeSec |-> c.elapsed_time]]]

(* sandbox/python3/src/app.py 33-37 *)
print_system_error(c) ==
    [prefix |-> "SYSTEM_ERROR:",
     body |-> [s |-> [error |-> c.system_error], n |-> <<>>]]

RunnerPrint(c) == IF c.fn = "print_verdict" THEN print_verdict(c) ELSE print_system_error(c)

(* result.get(key) of helpers.py 168-207 on a parsed object *)
GetS(o, k) == IF k \in DOMAIN o.s THEN o.s[k] ELSE NoStr
GetN(o, k) == IF k \in DOMAIN o.n THEN o.n[k] ELSE None

(* helpers.py 161: json.loads of the stripped line.  Text that starts with *)
(* anything but a JSON value raises JSONDecodeError.                       *)
json_loads(text) ==
    IF text.prefix # ""
    THEN RawLine("nonjson")
    ELSE ObjLine(GetS(text.body, "status"), GetS(text.body, "passed"),
                 IF GetN(text.body, "exitCode") = None THEN "absent" ELSE "int",
                 GetN(text.body, "exitCode"), GetN(text.body, "testCaseIndex"),
                 GetN(text.body, "elapsedTimeMs"), GetN(text.body, "memoryUsageMb"),
                 GetS(text.body, "error"))

RunnerCalls ==
    { [fn |-> "print_verdict", lang |-> la, passed |-> pa, test_case_index |-> ix,
       memory_used_mb |-> me[1], elapsed_time |-> me[2], runtime_error |-> re,
       compile_error |-> ce, system_error |-> NoStr] :
        la \in Runners, pa \in BOOLEAN, ix \in {None, 1}, me \in {<<None, None>>, <<20, 50>>},
        re \in {NoStr, "division by zero"}, ce \in {NoStr, "syntax error"} }
    \cup
    { [NoCall EXCEPT !.fn = "print_system_error", !.lang = la, !.system_error = er] :
        la \in Runners, er \in {"runner failed", "time output unreadable"} }

RunnerInit ==
    /\ MainInit /\ NotStopped /\ PureIdle /\ DeadlineIdle /\ TaskIdle /\ HookIdle
    /\ RetryIdle /\ StoreIdle /\ RoundIdle /\ RunIdle
    /\ runner \in [call : RunnerCalls, out : {Pending}]

(* The runner prints its line to stdout and the stdout reader takes it. *)
RunnerStep ==
    /\ runner.out = Pending
    /\ runner' = [runner EXCEPT !.out = HandleLine("stdout", json_loads(RunnerPrint(runner.call)))]
    /\ UNCHANGED <<supVars, procVars, readVars, hookVars, pureVars, exitVars, jobVars,
                   task, hook, retry, storeVars, rt, run>>

RunnerSpec == RunnerInit /\ [][RunnerStep]_vars

----------------------------------------------------------------------------
(* HookSpec: one AsyncWebhookManager (worker/webhook_manager.py): its      *)
(* session and a bounded number of dispatch_webhook_callback calls.        *)
(*   hook.session  "unbuilt" (before the constructor) | "failed" (the      *)
(*                 constructor raised) | "none" (never initialised) |      *)
(*                 "open" | "closed"                                       *)
(*   hook.calls    number of calls of dispatch_webhook_callback            *)
(*   hook.posts    number of POST requests issued                          *)
(*   hook.sent     the pairs <<event variant, path>> that were posted      *)
(*   hook.pending  the calls whose POST is issued and not yet answered     *)
(*   hook.orphaned an open session was replaced by initialize, not closed  *)
(*   hook.last     the last call that returned: its event, the session it  *)
(*                 met, the outcome of the POST, the POSTs it issued, its  *)
(*                 result                                                  *)

EventTypes == {"TestCaseResult", "PassedJudgment", "UnpassedJudgment", "Error",
               "JobCancellation"}

(* webhook_manager.py 19-25 and 50: path_mapping.get(type(event), default) *)
path_mapping(event) ==
    CASE event = "TestCaseResult" -> "/test-case-result"
      [] event = "PassedJudgment" -> "/judgment-passed"
      [] event = "UnpassedJudgment" -> "/judgment-unpassed"
      [] event = "Error" -> "/error"
      [] OTHER -> "/error"

(* webhook_manager.py 55: self.session.post on a session that is None or   *)
(* closed raises (AttributeError, RuntimeError) before any request; the    *)
(* except of line 67 turns that into the outcome of a transport error.     *)
session_post(session, outcome) == IF session = "open" THEN outcome ELSE 0

(* config/webhook_config.py 4-11 as it is in the repository defines the   *)
(* three WEBHOOK_NOTIFY_* endpoints; the constructor reads                 *)
(* WEBHOOK_CALLBACK_BASE_ENDPOINT, which a deployment has to add.          *)
Configs == {"repository", "with base endpoint"}

HookUnbuilt == [HookStart EXCEPT !.session = "unbuilt"]

(* webhook_manager.py 13-25: the constructor; AttributeError at line 18    *)
(* when WebhookConfig has no WEBHOOK_CALLBACK_BASE_ENDPOINT.               *)
HookNew(config) ==
    /\ hook.session = "unbuilt"
    /\ hook' = IF config = "repository"
               THEN [hook EXCEPT !.session = "failed"]
               ELSE HookStart
    /\ UNCHANGED <<supVars, procVars, readVars, hookVars, pureVars, exitVars, jobVars,
                   task, runner, retry, storeVars, rt, run>>

HookBuilt == hook.session \in {"none", "open", "closed"}

(* webhook_manager.py 27-31: a new ClientSession, whatever self.session    *)
(* holds; an open session that is replaced is never closed.                *)
HookInitialize ==
    /\ HookBuilt
    /\ hook' = [hook EXCEPT !.session = "open",
                            !.orphaned = @ \/ hook.session = "open"]
    /\ UNCHANGED <<supVars, procVars, readVars, hookVars, pureVars, exitVars, jobVars,
                   task, runner, retry, storeVars, rt, run>>

(* webhook_manager.py 33-39 *)
HookShutdown ==
    /\ hook.session = "open"
    /\ hook' = [hook EXCEPT !.session = "closed"]
    /\ UNCHANGED <<supVars, procVars, readVars, hookVars, pureVars, exitVars, jobVars,
                   task, runner, retry, storeVars, rt, run>>

(* webhook_manager.py 41-57: a call of dispatch_webhook_callback up to its *)
(* await: on an open session the POST is issued and the call waits for the *)
(* response; on a session that is None or closed the call returns 500.     *)
HookDispatch(event) ==
    /\ HookBuilt
    /\ hook.calls < MaxDispatches
    /\ IF hook.session = "open"
       THEN hook' = [hook EXCEPT
                       !.calls = @ + 1,
                       !.posts = @ + 1,
                       !.sent = @ \cup {<<event, path_mapping(event)>>},
                       !.pending = @ \cup {[id |-> hook.calls + 1, event |-> event]}]
       ELSE hook' = [hook EXCEPT
                       !.calls = @ + 1,
                       !.last = [event |-> event, session |-> hook.session,
                                 outcome |-> 0, posts |-> 0,
                                 code |-> dispatch_webhook_callback(
                                              session_post(hook.session, 0))]]
    /\ UNCHANGED <<supVars, procVars, readVars, hookVars, pureVars, exitVars, jobVars,
                   task, runner, retry, storeVars, rt, run>>

(* webhook_manager.py 55-69: the POST of a waiting call ends (a response,  *)
(* a timeout after 10 s, a transport error) and the call returns; other    *)
(* calls and a shutdown may have run in between.                           *)
HookResponse(c, outcome) ==
    /\ c \in hook.pending
    /\ hook' = [hook EXCEPT
                  !.pending = @ \ {c},
                  !.last = [event |-> c.event, session |-> "open", outcome |-> outcome,
                            posts |-> 1,
                            code |-> dispatch_webhook_callback(session_post("open", outcome))]]
    /\ UNCHANGED <<supVars, procVars, readVars, hookVars, pureVars, exitVars, jobVars,
                   task, runner, retry, storeVars, rt, run>>

HookCalls == [id : 1..MaxDispatches, event : EventTypes]

HookNext ==
    \/ \E config \in Configs : HookNew(config)
    \/ HookInitialize
    \/ HookShutdown
    \/ \E ev \in EventTypes : HookDispatch(ev)
    \/ \E c \in HookCalls : \E o \in WebhookOutcomes : HookResponse(c, o)

HookInit ==
    /\ MainInit /\ NotStopped /\ PureIdle /\ DeadlineIdle
    /\ TaskIdle /\ RunnerIdle /\ hook = HookUnbuilt /\ RetryIdle /\ StoreIdle /\ RoundIdle
    /\ RunIdle

HookSpec == HookInit /\ [][HookNext]_vars

----------------------------------------------------------------------------
(* RetrySpec: one call of CodeChallengeJudgmentJobRepository._with_retry   *)
(* (repository 155-176) around a store operation whose attempts end as the *)
(* sequence retry.outcomes says: a returned value or a raised error.       *)
(*   retry.attempt   the loop variable                                     *)
(*   retry.interval  retry_interval, in tenths of a second                 *)
(*   retry.sleeps    the arguments of the time.sleep calls so far          *)
(*   retry.calls     number of calls of func                               *)
(*   retry.result    "pending" | "returned" | "raised", retry.value what   *)

Values == {"v1", "v2"}
Errors == {"e1", "e2"}

(* Variant that gives up quietly: None instead of the last error. *)
RetryAttemptSwallows ==
    /\ retry.result = "pending"
    /\ LET r == retry.outcomes[retry.attempt] IN
       retry' = IF r \in Values
                THEN [retry EXCEPT !.calls = @ + 1, !.result = "returned", !.value = r]
                ELSE IF retry.attempt < max_retries
                THEN [retry EXCEPT !.calls = @ + 1,
                                   !.sleeps = Append(@, retry.interval),
                                   !.interval = @ * 2,
                                   !.attempt = @ + 1]
                ELSE [retry EXCEPT !.calls = @ + 1, !.result = "returned", !.value = "none"]
    /\ UNCHANGED <<supVars, procVars, readVars, hookVars, pureVars, exitVars, jobVars,
                   task, runner, hook, storeVars, rt, run>>

(* repository 165-176: one iteration of the loop. *)
RetryAttempt ==
    /\ retry.result = "pending"
    /\ LET r == retry.outcomes[retry.attempt] IN
       retry' = IF r \in Values
                THEN [retry EXCEPT !.calls = @ + 1, !.result = "returned", !.value = r]
                ELSE IF retry.attempt < max_retries
                THEN [retry EXCEPT !.calls = @ + 1,
                                   !.sleeps = Append(@, retry.interval),
                                   !.interval = @ * 2,
                                   !.attempt = @ + 1]
                ELSE [retry EXCEPT !.calls = @ + 1, !.result = "raised", !.value = r]
    /\ UNCHANGED <<supVars, procVars, readVars, hookVars, pureVars, exitVars, jobVars,
                   task, runner, hook, storeVars, rt, run>>

RetryInit ==
    /\ MainInit /\ NotStopped /\ PureIdle /\ DeadlineIdle
    /\ TaskIdle /\ RunnerIdle /\ HookIdle /\ StoreIdle /\ RoundIdle /\ RunIdle
    /\ \E o \in [1..max_retries -> Values \cup Errors] : retry = RetryStart(o)

RetrySpec == RetryInit /\ [][RetryAttempt]_vars

----------------------------------------------------------------------------
(* StoreSpec: the job store as CodeChallengeJudgmentJobRepository uses it, *)
(* for one key {userId}:{jobId}: one call of update, calls of delete, and  *)
(* the passing of time.                                                    *)
(*   store   present, value (the serialized job), expireAt                 *)
(*   clock   the time in whole seconds; a key is there up to and including *)
(*           the second of its expireAt and gone after it, so the TTL      *)
(*           command reads 0 for a key in its last second                  *)
(*   upd     update: its position, its patches, the value it read (seen),  *)
(*           its Job object, ttl_value and when it was read, the attempt   *)
(*           and the retry interval of _with_retry in save, its result     *)
(*   dlt     delete: number of calls, count returned by the last one       *)
(* A serialized job keeps the two fields update can patch, stopFlag and    *)
(* verdicts ("empty" or "one" stand for the list); the other fields of the *)
(* job pass through update unread.                                         *)

StoredJobs == [stopFlag : BOOLEAN, verdicts : {"empty", "one"}]

Patches == [stop_flag : {"keep", "true", "false"}, last_test_case_index : {None, 1},
            verdicts : {"keep", "empty", "one"}]

(* schema.py 27-41 through code_challenge_judgment_job.py 87-107:          *)
(* Job.create_from_dict(json.loads(job_data))                              *)
job_create_from_dict(d) ==
    [stop_flag |-> d.stopFlag, verdicts |-> d.verdicts, last_test_case_index |-> None]

(* schema.py 43-60: as_dict walks fields(self): an attribute that is no    *)
(* field of the dataclass, as last_test_case_index, is not serialized.     *)
job_as_dict(job) == [stopFlag |-> job.stop_flag, verdicts |-> job.verdicts]

(* repository 139-146: the patches that are not None are assigned. *)
ApplyPatches(job, patch) ==
    [stop_flag |-> IF patch.stop_flag = "keep" THEN job.stop_flag
                   ELSE patch.stop_flag = "true",
     last_test_case_index |-> IF patch.last_test_case_index = None
                              THEN job.last_test_case_index
                              ELSE patch.last_test_case_index,
     verdicts |-> IF patch.verdicts = "keep" THEN job.verdicts ELSE patch.verdicts]

(* The TTL command: -2 for no key, else the whole seconds left. *)
redis_ttl == IF store.present THEN store.expireAt - clock ELSE -2

(* The key at time t: a key past its expireAt is gone. *)
Expire(st, t) == IF st.present /\ t > st.expireAt THEN Absent ELSE st

(* A second passes. *)
Tick ==
    /\ clock < MaxTime
    /\ clock' = clock + 1
    /\ store' = Expire(store, clock + 1)
    /\ UNCHANGED <<upd, dlt>>
    /\ UNCHANGED <<supVars, procVars, readVars, hookVars, pureVars, exitVars, jobVars,
                   task, runner, hook, retry, rt, run>>

(* repository 109-119: update(job_id, user_id, ...) is called. *)
UpdateCall(patch) ==
    /\ upd.pc = "idle"
    /\ upd' = [upd EXCEPT !.pc = "find", !.patch = patch]
    /\ UNCHANGED <<store, clock, dlt>>
    /\ UNCHANGED <<supVars, procVars, readVars, hookVars, pureVars, exitVars, jobVars,
                   task, runner, hook, retry, rt, run>>

(* repository 121-125 with 65-77: GET of the key; -1 when there is none. *)
UpdateFind ==
    /\ upd.pc = "find"
    /\ upd' = IF store.present
              THEN [upd EXCEPT !.pc = "ttl", !.seen = store.value,
                               !.job = job_create_from_dict(store.value)]
              ELSE [upd EXCEPT !.pc = "returned", !.res = -1]
    /\ UNCHANGED <<store, clock, dlt>>
    /\ UNCHANGED <<supVars, procVars, readVars, hookVars, pureVars, exitVars, jobVars,
                   task, runner, hook, retry, rt, run>>

(* repository 127-137: TTL of the key; a negative answer ends the call     *)
(* with -1 (a key without expiry, answer -1, is deleted first).            *)
UpdateTtl ==
    /\ upd.pc = "ttl"
    /\ upd' = IF redis_ttl < 0
              THEN [upd EXCEPT !.pc = "returned", !.res = -1,
                               !.ttl_value = redis_ttl, !.ttlAt = clock]
              ELSE [upd EXCEPT !.pc = "save", !.ttl_value = redis_ttl, !.ttlAt = clock]
    /\ store' = IF redis_ttl = -1 THEN Absent ELSE store
    /\ UNCHANGED <<clock, dlt>>
    /\ UNCHANGED <<supVars, procVars, readVars, hookVars, pureVars, exitVars, jobVars,
                   task, runner, hook, retry, rt, run>>

(* repository 139-148 with 80-89: the patches, then SETEX key ttl_value    *)
(* json.dumps(job.as_dict()).  The store refuses an expire time of 0: the  *)
(* attempt of _with_retry (165-176) fails, and the third failure           *)
(* propagates.                                                             *)
UpdateSave ==
    /\ upd.pc = "save"
    /\ LET job == ApplyPatches(upd.job, upd.patch) IN
       IF upd.ttl_value = 0
       THEN /\ upd' = IF upd.attempt < max_retries
                      THEN [upd EXCEPT !.pc = "sleep", !.job = job]
                      ELSE [upd EXCEPT !.pc = "raised", !.job = job]
            /\ store' = store
       ELSE /\ upd' = [upd EXCEPT !.pc = "returned", !.job = job, !.res = 1]
            /\ store' = [present |-> TRUE, value |-> job_as_dict(job),
                         expireAt |-> clock + upd.ttl_value]
    /\ UNCHANGED <<clock, dlt>>
    /\ UNCHANGED <<supVars, procVars, readVars, hookVars, pureVars, exitVars, jobVars,
                   task, runner, hook, retry, rt, run>>

(* repository 172-174: time.sleep(retry_interval) between two attempts of  *)
(* the SETEX of update, then the interval doubles.  The sleep lasts its    *)
(* interval (tenths of a second) at least: the clock of whole seconds      *)
(* moves by the whole seconds of the interval or by one more.              *)
UpdateSleep(extra) ==
    /\ upd.pc = "sleep"
    /\ LET t == clock + (upd.interval \div 10) + extra IN
       /\ clock' = t
       /\ store' = Expire(store, t)
    /\ upd' = [upd EXCEPT !.pc = "save", !.attempt = @ + 1, !.interval = @ * 2]
    /\ UNCHANGED dlt
    /\ UNCHANGED <<supVars, procVars, readVars, hookVars, pureVars, exitVars, jobVars,
                   task, runner, hook, retry, rt, run>>

SaveTtls == 1..(MaxTime - 1)

(* repository 80-89: save(user_id, job, ttl) called on its own: SETEX      *)
(* creates the key or overwrites it, with any job and any expire time the  *)
(* store accepts, and save returns 1.                                      *)
StoreSave(job, ttl) ==
    /\ store' = [present |-> TRUE, value |-> job_as_dict(job), expireAt |-> clock + ttl]
    /\ store' # store
    /\ UNCHANGED <<clock, upd, dlt>>
    /\ UNCHANGED <<supVars, procVars, readVars, hookVars, pureVars, exitVars, jobVars,
                   task, runner, hook, retry, rt, run>>

(* Variant in which deleting a key that is not there is an error. *)
StoreDeleteStrict ==
    /\ dlt.calls < MaxDeletes
    /\ dlt' = [calls |-> dlt.calls + 1, count |-> IF store.present THEN 1 ELSE 0,
               raised |-> ~store.present]
    /\ store' = Absent
    /\ UNCHANGED <<clock, upd>>
    /\ UNCHANGED <<supVars, procVars, readVars, hookVars, pureVars, exitVars, jobVars,
                   task, runner, hook, retry, rt, run>>

(* repository 92-106: delete(job_id, user_id): DEL of the key, which       *)
(* answers the number of keys it removed.                                  *)
StoreDelete ==
    /\ dlt.calls < MaxDeletes
    /\ dlt' = [calls |-> dlt.calls + 1, count |-> IF store.present THEN 1 ELSE 0,
               raised |-> FALSE]
    /\ store' = Absent
    /\ UNCHANGED <<clock, upd>>
    /\ UNCHANGED <<supVars, procVars, readVars, hookVars, pureVars, exitVars, jobVars,
                   task, runner, hook, retry, rt, run>>

StoreNext ==
    \/ Tick
    \/ \E patch \in Patches : UpdateCall(patch)
    \/ UpdateFind
    \/ UpdateTtl
    \/ UpdateSave
    \/ \E extra \in {0, 1} : UpdateSleep(extra)
    \/ \E v \in StoredJobs : \E ttl \in SaveTtls : StoreSave(job_create_from_dict(v), ttl)
    \/ StoreDelete

(* A job is saved with SETEX (repository 80-89), so a key that is there    *)
(* has an expiry.                                                          *)
StoreInit ==
    /\ MainInit /\ NotStopped /\ PureIdle /\ DeadlineIdle
    /\ TaskIdle /\ RunnerIdle /\ HookIdle /\ RetryIdle /\ RoundIdle /\ RunIdle
    /\ clock = 0
    /\ store \in {Absent} \cup
                 { [present |-> TRUE, value |-> v, expireAt |-> x] :
                       v \in StoredJobs, x \in 0..(MaxTime - 1) }
    /\ upd = UpdStart
    /\ dlt = [calls |-> 0, count |-> 0, raised |-> FALSE]

StoreSpec == StoreInit /\ [][StoreNext]_vars

----------------------------------------------------------------------------
(* RoundSpec: one Verdict object, Schema.as_dict of it, and                *)
(* Verdict.create_from_dict of the dict.  A str is a sequence of           *)
(* characters; a dict is the sequence of its items <<key, value>> in the   *)
(* order of their insertion.                                               *)

LowerChars == <<"a", "b", "c", "d", "e", "f", "g", "h", "i", "j", "k", "l", "m", "n", "o", "p", "q", "r", "s", "t", "u", "v", "w", "x", "y", "z">>
UpperChars == <<"A", "B", "C", "D", "E", "F", "G", "H", "I", "J", "K", "L", "M", "N", "O", "P", "Q", "R", "S", "T", "U", "V", "W", "X", "Y", "Z">>
Digits == {"0", "1", "2", "3", "4", "5", "6", "7", "8", "9"}
IsLower(c) == \E i \in 1..Len(LowerChars) : LowerChars[i] = c
IsUpper(c) == \E i \in 1..Len(UpperChars) : UpperChars[i] = c
ToUpper(c) == IF IsLower(c) THEN UpperChars[CHOOSE i \in 1..Len(LowerChars) : LowerChars[i] = c]
              ELSE c
ToLower(c) == IF IsUpper(c) THEN LowerChars[CHOOSE i \in 1..Len(UpperChars) : UpperChars[i] = c]
              ELSE c

(* str.lower() *)
lower(x) == [i \in 1..Len(x) |-> ToLower(x[i])]

(* str.title(): a letter after a character that is no letter is made       *)
(* upper case, every other letter lower case.                              *)
title(x) ==
    [i \in 1..Len(x) |->
        IF i = 1 \/ ~(IsLower(x[i - 1]) \/ IsUpper(x[i - 1]))
        THEN ToUpper(x[i]) ELSE ToLower(x[i])]

(* str.split('_') *)
RECURSIVE split(_)
split(x) ==
    IF \E i \in 1..Len(x) : x[i] = "_"
    THEN LET i == CHOOSE j \in 1..Len(x) : x[j] = "_" /\ \A k \in 1..(j - 1) : x[k] # "_"
         IN  <<SubSeq(x, 1, i - 1)>> \o split(SubSeq(x, i + 1, Len(x)))
    ELSE <<x>>

(* ''.join(x.title() for x in components) *)
RECURSIVE join_title(_)
join_title(components) ==
    IF components = <<>> THEN <<>>
    ELSE title(Head(components)) \o join_title(Tail(components))

(* utils.py 4-6 *)
snake_to_camel(snake_str) ==
    LET components == split(snake_str)
    IN  components[1] \o join_title(Tail(components))

(* The length of the run of lower-case letters of x that starts at i. *)
RECURSIVE LowerRun(_, _)
LowerRun(x, i) == IF i <= Len(x) /\ IsLower(x[i]) THEN 1 + LowerRun(x, i + 1) ELSE 0

(* utils.py 10: re.sub(r'(.)([A-Z][a-z]+)', r'\1_\2', ...): the matches    *)
(* are taken from left to right and do not overlap.                        *)
RECURSIVE sub_word(_)
sub_word(x) ==
    IF x = <<>> THEN <<>>
    ELSE IF Len(x) >= 3 /\ IsUpper(x[2]) /\ IsLower(x[3])
    THEN LET n == LowerRun(x, 3)
         IN  <<x[1], "_">> \o SubSeq(x, 2, 2 + n) \o sub_word(SubSeq(x, 3 + n, Len(x)))
    ELSE <<x[1]>> \o sub_word(Tail(x))

(* utils.py 11: re.sub(r'([a-z0-9])([A-Z])', r'\1_\2', ...) *)
RECURSIVE sub_boundary(_)
sub_boundary(x) ==
    IF x = <<>> THEN <<>>
    ELSE IF Len(x) >= 2 /\ (IsLower(x[1]) \/ x[1] \in Digits) /\ IsUpper(x[2])
    THEN <<x[1], "_", x[2]>> \o sub_boundary(SubSeq(x, 3, Len(x)))
    ELSE <<x[1]>> \o sub_boundary(Tail(x))

(* Variant with the first substitution only. *)
camel_to_snake_one_pass(camel_str) == lower(sub_word(camel_str))

(* utils.py 9-11 *)
camel_to_snake(camel_str) == lower(sub_boundary(sub_word(camel_str)))

(* verdict.py 10-15: the names of the fields, in their order. *)
VerdictFields ==
    << <<"p", "a", "s", "s", "e", "d">>,
       <<"t", "e", "s", "t", "_", "c", "a", "s", "e", "_", "i", "n", "d", "e", "x">>,
       <<"m", "e", "m", "o", "r", "y", "_", "u", "s", "a", "g", "e", "_", "m", "b">>,
       <<"e", "l", "a", "p", "s", "e", "d", "_", "t", "i", "m", "e", "_", "m", "s">>,
       <<"f", "a", "i", "l", "u", "r", "e", "_", "c", "a", "u", "s", "e">>,
       <<"f", "a", "i", "l", "u", "r", "e", "_", "d", "e", "t", "a", "i", "l">> >>
ValidFields == { VerdictFields[i] : i \in 1..Len(VerdictFields) }

(* getattr(self, f.name) *)
getattr(v, name) ==
    CASE name = VerdictFields[1] -> v.passed
      [] name = VerdictFields[2] -> v.test_case_index
      [] name = VerdictFields[3] -> v.memory_usage_mb
      [] name = VerdictFields[4] -> v.elapsed_time_ms
      [] name = VerdictFields[5] -> v.failure_cause
      [] name = VerdictFields[6] -> v.failure_detail

(* The members of FailureCause; the value of a member is the string of     *)
(* its name.                                                               *)
FailureCauses ==
    {"COMPILE_ERROR", "COMPILE_TIMEOUT", "COMPILE_OUT_OF_MEMORY", "RUNTIME_ERROR",
     "RUNTIME_TIMEOUT", "RUNTIME_OUT_OF_MEMORY", "WRONG_ANSWER", "SANDBOX_TIMEOUT",
     "SANDBOX_OUT_OF_MEMORY"}
FailureCauseValue(member) == VStr(member.s)

(* schema.py 62-73: an Enum gives its value; the other values of a Verdict *)
(* (bool, int, float, str, None) are returned as they are.                 *)
process_value(value) ==
    IF value.t = "FailureCause" THEN FailureCauseValue(value) ELSE value

(* schema.py 43-60 *)
as_dict(v) ==
    [i \in 1..Len(VerdictFields) |->
        <<snake_to_camel(VerdictFields[i]), process_value(getattr(v, VerdictFields[i]))>>]

(* schema.py 10-25: no ValueError *)
validate_keys(d) == \A i \in DOMAIN d : camel_to_snake(d[i][1]) \in ValidFields

(* verdict.py 17-20 and 38-40: FailureCause(str); a str that is the value  *)
(* of no member is a ValueError.                                           *)
CauseOfStr(value) ==
    IF value.t = "str" THEN VEnum(value.s) ELSE value
CauseRaises(value) == value.t = "str" /\ value.s \notin FailureCauses

(* schema.py 37: processed_dict is built key by key, so of the keys that   *)
(* convert to one name the last in the order of insertion stays.           *)
KeysOf(d, name) == { i \in DOMAIN d : camel_to_snake(d[i][1]) = name }

(* schema.py 39-41: the constructor called with processed_dict: the value *)
(* of the key that converts to the field's name, else the default.        *)
Argument(d, name) ==
    LET at == KeysOf(d, name)
    IN  IF at = {} THEN VNone ELSE d[CHOOSE i \in at : \A j \in at : j <= i][2]

(* Variant that leaves failure_cause the str of the dict. *)
verdict_create_from_dict_str(d) ==
    IF ~validate_keys(d) \/ KeysOf(d, VerdictFields[1]) = {}
    THEN [kind |-> "raise", v |-> NoPyVerdict]
    ELSE [kind |-> "ok",
          v |-> PyVerdict(Argument(d, VerdictFields[1]), Argument(d, VerdictFields[2]),
                          Argument(d, VerdictFields[3]), Argument(d, VerdictFields[4]),
                          Argument(d, VerdictFields[5]),
                          Argument(d, VerdictFields[6]))]

(* verdict.py 22-42 with schema.py 27-41: ValueError for a key that is no  *)
(* field, TypeError without passed, else the Verdict.                      *)
verdict_create_from_dict(d) ==
    IF \/ ~validate_keys(d)
       \/ KeysOf(d, VerdictFields[1]) = {}
       \/ CauseRaises(Argument(d, VerdictFields[5]))
    THEN [kind |-> "raise", v |-> NoPyVerdict]
    ELSE [kind |-> "ok",
          v |-> PyVerdict(Argument(d, VerdictFields[1]), Argument(d, VerdictFields[2]),
                          Argument(d, VerdictFields[3]), Argument(d, VerdictFields[4]),
                          CauseOfStr(Argument(d, VerdictFields[5])),
                          Argument(d, VerdictFields[6]))]

(* The Verdicts the worker builds: passing with index and metrics, failing *)
(* with a cause and with or without index and detail.                      *)
RoundVerdicts ==
    { PyVerdict(VBool(TRUE), VNum(ix), VNum(me[1]), VNum(me[2]), VNone, VNone) :
          ix \in {1, 2}, me \in {<<50, 20>>, <<0, 0>>} }
    \cup { PyVerdict(VBool(FALSE), ix, VNone, VNone, VEnum(c), de) :
               ix \in {VNone, VNum(1), VNum(2)},
               c \in FailureCauses, de \in {VNone, VStr("syntax error")} }

RoundAsDict ==
    /\ rt.pc = "object"
    /\ rt' = [rt EXCEPT !.pc = "dict", !.d = as_dict(rt.v)]
    /\ UNCHANGED <<supVars, procVars, readVars, hookVars, pureVars, exitVars, jobVars,
                   task, runner, hook, retry, store, clock, upd, dlt, run>>

RoundCreateFromDict ==
    /\ rt.pc = "dict"
    /\ rt' = [rt EXCEPT !.pc = "created", !.back = verdict_create_from_dict(rt.d)]
    /\ UNCHANGED <<supVars, procVars, readVars, hookVars, pureVars, exitVars, jobVars,
                   task, runner, hook, retry, store, clock, upd, dlt, run>>

RoundNext == RoundAsDict \/ RoundCreateFromDict

RoundInit ==
    /\ MainInit /\ NotStopped /\ PureIdle /\ DeadlineIdle
    /\ TaskIdle /\ RunnerIdle /\ HookIdle /\ RetryIdle /\ StoreIdle /\ RunIdle
    /\ \E v \in RoundVerdicts : rt = RtStart(v)

RoundSpec == RoundInit /\ [][RoundNext]_vars

----------------------------------------------------------------------------
(* LiveSpec: the invocation under fair scheduling.  The event loop runs    *)
(* every coroutine that can run, a pipe whose writer is gone reports end   *)
(* of file, the timer of wait_for fires while the wait lasts, and every    *)
(* dispatch ends (with a status or with the manager's timeout).  Nothing   *)
(* is assumed of the sandbox: it may write, exit, or do neither for ever;  *)
(* nor of a cancellation from outside.                                     *)
Fairness ==
    /\ WF_vars(\E fault \in PrepareFaults : Prepare(fault))
    /\ WF_vars(StartReaders)
    /\ \A s \in Streams : WF_vars(PipeEof(s))
    /\ WF_vars(TransportFinish)
    /\ \A s \in Streams : WF_vars(ReadLine(s))
    /\ \A s \in Streams : WF_vars(ReaderEof(s))
    /\ \A s \in Streams : WF_vars(\E o \in WebhookOutcomes : ErrorDispatched(s, o))
    /\ \A i \in 1..MaxSandboxLines :
          WF_vars(\E o \in WebhookOutcomes : HandleWebhookResponse(i, o))
    /\ WF_vars(Deadline)
    /\ WF_vars(Timeout)
    /\ WF_vars(WaitReturns)
    /\ WF_vars(GatherRaises)
    /\ WF_vars(\E d \in DeleteOutcomes : GatherReturns(d))
    /\ WF_vars(\E o \in WebhookOutcomes : SandboxVerdictDispatched(o))
    /\ WF_vars(\E o \in WebhookOutcomes : \E d \in DeleteOutcomes : FinalDispatched(o, d))
    /\ WF_vars(ChildExited)
    /\ \A s \in Streams : WF_vars(ReaderCancelled(s))
    /\ \A i \in 1..MaxSandboxLines : WF_vars(HandlerCancelled(i))
    /\ WF_vars(Cancelled)

(* What the sandbox of LiveSpec may write: a verdict or a system error to *)
(* stdout, a line that is no JSON to stderr.                               *)
LiveLinesOf(s) == IF s = "stdout" THEN {PassA, SystemErr} ELSE {Junk}

LiveNext ==
    \/ \E fault \in PrepareFaults : Prepare(fault)
    \/ StartReaders
    \/ \E s \in Streams : \E l \in LiveLinesOf(s) : SandboxWrite(s, l)
    \/ \E code \in ExitCodes : SandboxExit(code)
    \/ ChildExited
    \/ \E s \in Streams : PipeEof(s)
    \/ TransportFinish
    \/ \E s \in Streams : ReadLine(s)
    \/ \E s \in Streams : ReaderEof(s)
    \/ \E s \in Streams : \E o \in WebhookOutcomes : ErrorDispatched(s, o)
    \/ \E i \in 1..MaxSandboxLines : \E o \in WebhookOutcomes : HandleWebhookResponse(i, o)
    \/ Deadline
    \/ Timeout
    \/ WaitReturns
    \/ GatherRaises
    \/ \E d \in DeleteOutcomes : GatherReturns(d)
    \/ \E o \in WebhookOutcomes : SandboxVerdictDispatched(o)
    \/ \E o \in WebhookOutcomes : \E d \in DeleteOutcomes : FinalDispatched(o, d)
    \/ Cancel
    \/ \E s \in Streams : ReaderCancelled(s)
    \/ \E i \in 1..MaxSandboxLines : HandlerCancelled(i)
    \/ Cancelled

LiveSpec == Init /\ [][LiveNext]_vars /\ Fairness

----------------------------------------------------------------------------
(* ExecSpec: one run of a per-language runner (sandbox/<lang>/src/app.py)  *)
(* on N test cases: main() with process_arguments, the compile step of     *)
(* python3 and java17, and the loop of execute_with_test_cases.            *)
(*   run.pc    "main" | "compile" | "loop" | "exited"                      *)
(*   run.idx   idx of enumerate(test_cases): test cases done so far        *)
(*   run.out   the calls of print_verdict and print_system_error, in the   *)
(*             order of the lines they printed                             *)
(*   run.code  the exit code of the runner (None while it runs)            *)

VerdictCall(lang, passed, index, measured, runtime_error, compile_error) ==
    [NoCall EXCEPT !.fn = "print_verdict", !.lang = lang, !.passed = passed,
                   !.test_case_index = index, !.memory_used_mb = measured[1],
                   !.elapsed_time = measured[2], !.runtime_error = runtime_error,
                   !.compile_error = compile_error]

(* The keyword arguments memory_used_mb and elapsed_time_sec (java17:      *)
(* elapsed_time_ms) of print_verdict: left out, or the two numbers read    *)
(* from the output of /usr/bin/time.                                       *)
Measurements == {<<13, 1>>, <<20, 50>>}

SystemErrorCall(lang, error) ==
    [NoCall EXCEPT !.fn = "print_system_error", !.lang = lang, !.system_error = error]

(* Variant that ends the run on an error but not on a wrong answer. *)
VerdictExitsOnErrorOnly(c) == c.compile_error # NoStr \/ c.runtime_error # NoStr

(* python3 app.py 27-29, java17 27-28, nodejs20 28-29: print_verdict ends  *)
(* the process after a verdict that is not a pass.                         *)
VerdictExits(c) == c.compile_error # NoStr \/ c.runtime_error # NoStr \/ ~c.passed

(* print_verdict: the line, then sys.exit(0) or the return to the caller;  *)
(* SystemExit is no Exception, so no except clause of the runner stops it. *)
PrintVerdict(c, pcNext, idxNext) ==
    run' = IF VerdictExits(c)
           THEN [run EXCEPT !.out = Append(@, c), !.pc = "exited", !.code = 0]
           ELSE [run EXCEPT !.out = Append(@, c), !.pc = pcNext, !.idx = idxNext]

(* python3 app.py 33-38: print_system_error: the line, then sys.exit(1). *)
PrintSystemError(error) ==
    run' = [run EXCEPT !.out = Append(@, SystemErrorCall(run.lang, error)),
                       !.pc = "exited", !.code = 1]

(* python3 app.py 197-269, java17 189-263, nodejs20 147-222:               *)
(* process_arguments; nodejs20 has no compile step.                        *)
RunArguments(ok) ==
    /\ run.pc = "main"
    /\ IF ok
       THEN run' = [run EXCEPT !.pc = IF run.lang = "nodejs20" THEN "loop" ELSE "compile"]
       ELSE PrintSystemError("argument error")
    /\ UNCHANGED <<supVars, procVars, readVars, hookVars, pureVars, exitVars, jobVars,
                   task, runner, hook, retry, storeVars, rt>>

(* python3 app.py 79-116, java17 76-103: the compile step.                 *)
(*   ok         the compiler ended with code 0                             *)
(*   error      it ended with another code and a message was found         *)
(*   unparsed   python3 only: it ended with another code and its stderr    *)
(*              holds no 'py_compile.PyCompileError:', so                  *)
(*              parse_python_compile_error_message (59-72) returns None    *)
(*              and the verdict carries compile_error None                 *)
(*   timeout    subprocess.TimeoutExpired                                  *)
(*   exception  another exception: print_system_error                      *)
CompileOutcomes == {"ok", "error", "unparsed", "timeout", "exception"}
RunCompile(outcome) ==
    /\ run.pc = "compile"
    /\ outcome = "unparsed" => run.lang = "python3"
    /\ CASE outcome = "ok" -> run' = [run EXCEPT !.pc = "loop"]
         [] outcome = "error" ->
               PrintVerdict(VerdictCall(run.lang, FALSE, None, <<None, None>>, NoStr,
                                        "syntax error"),
                            "loop", run.idx)
         [] outcome = "unparsed" ->
               PrintVerdict(VerdictCall(run.lang, FALSE, None, <<None, None>>, NoStr, NoStr),
                            "loop", run.idx)
         [] outcome = "timeout" ->
               PrintVerdict(VerdictCall(run.lang, FALSE, None, <<None, None>>, NoStr,
                                        "compile time limit"),
                            "loop", run.idx)
         [] OTHER -> PrintSystemError("compilation failed")
    /\ UNCHANGED <<supVars, procVars, readVars, hookVars, pureVars, exitVars, jobVars,
                   task, runner, hook, retry, storeVars, rt>>

(* python3 app.py 119-194, java17 106-186, nodejs20 74-144: one iteration  *)
(* of the loop over enumerate(test_cases).                                 *)
(*   pass, wrong   the program ended with code 0; output equal or not; the *)
(*                 verdict carries the memory and the time measured        *)
(*   runtime       it ended with another code                              *)
(*   timeout       subprocess.TimeoutExpired                               *)
(*   memory        python3 only: memory used above the limit               *)
(*   system        /usr/bin/time failed, another exception, or the time    *)
(*                 output cannot be read                                   *)
(*   crash         the test case is no pair: an exception outside the try  *)
(*                 ends the runner with a traceback and exit code 1        *)
TestOutcomes == {"pass", "wrong", "runtime", "timeout", "memory", "system", "crash"}
RunTestCase(outcome) ==
    /\ run.pc = "loop"
    /\ run.idx < run.n
    /\ outcome = "memory" => run.lang = "python3"
    /\ CASE outcome = "pass" ->
               \E measured \in Measurements :
                   PrintVerdict(VerdictCall(run.lang, TRUE, run.idx + 1, measured, NoStr, NoStr),
                                "loop", run.idx + 1)
         [] outcome = "wrong" ->
               \E measured \in Measurements :
                   PrintVerdict(VerdictCall(run.lang, FALSE, run.idx + 1, measured, NoStr, NoStr),
                                "loop", run.idx + 1)
         [] outcome = "runtime" ->
               PrintVerdict(VerdictCall(run.lang, FALSE, run.idx + 1, <<None, None>>,
                                        "division by zero", NoStr),
                            "loop", run.idx + 1)
         [] outcome = "timeout" ->
               PrintVerdict(VerdictCall(run.lang, FALSE, run.idx + 1, <<None, None>>,
                                        "time limit", NoStr),
                            "loop", run.idx + 1)
         [] outcome = "memory" ->
               PrintVerdict(VerdictCall(run.lang, FALSE, run.idx + 1, <<None, None>>,
                                        "memory limit", NoStr),
                            "loop", run.idx + 1)
         [] outcome = "system" -> PrintSystemError("runner failed")
         [] OTHER -> run' = [run EXCEPT !.pc = "exited", !.code = 1]
    /\ UNCHANGED <<supVars, procVars, readVars, hookVars, pureVars, exitVars, jobVars,
                   task, runner, hook, retry, storeVars, rt>>

(* The loop is over: main() returns and the runner ends with code 0. *)
RunReturn ==
    /\ run.pc = "loop"
    /\ run.idx = run.n
    /\ run' = [run EXCEPT !.pc = "exited", !.code = 0]
    /\ UNCHANGED <<supVars, procVars, readVars, hookVars, pureVars, exitVars, jobVars,
                   task, runner, hook, retry, storeVars, rt>>

ExecNext ==
    \/ \E ok \in BOOLEAN : RunArguments(ok)
    \/ \E outcome \in CompileOutcomes : RunCompile(outcome)
    \/ \E outcome \in TestOutcomes : RunTestCase(outcome)
    \/ RunReturn

ExecInit ==
    /\ MainInit /\ NotStopped /\ PureIdle /\ DeadlineIdle
    /\ TaskIdle /\ RunnerIdle /\ HookIdle /\ RetryIdle /\ StoreIdle /\ RoundIdle
    /\ \E lang \in Runners : \E n \in 0..MaxTests : run = RunStart(lang, n)

ExecSpec == ExecInit /\ [][ExecNext]_vars

----------------------------------------------------------------------------
(* Helpers of the properties. *)

AllPassed(vs) == \A i \in 1..Len(vs) : vs[i].passed
Failing(vs) == { i \in 1..Len(vs) : ~vs[i].passed }
Earliest(S) == CHOOSE i \in S : \A j \in S : i <= j
IsGreatest(m, S) == m \in S /\ \A x \in S : x <= m
ParsedFailing(vs) ==
    { i \in 1..Len(vs) : ~vs[i].passed /\ vs[i].failure_cause \notin SandboxCauses }
Aggregated == aggResult # "none"
HasMetrics(v) == v.memory_usage_mb # None /\ v.elapsed_time_ms # None
AllPassedWithMetrics(vs) == \A i \in 1..Len(vs) : vs[i].passed /\ HasMetrics(vs[i])
WithCause(vs, cause) == { i \in 1..Len(vs) : vs[i].failure_cause = cause }
NoOutput ==
    /\ verdicts = <<>>
    /\ \A s \in Streams : pipe[s] = <<>> /\ unexpected[s] = <<>> /\ ~readerRaised[s]
SystemFailures == {"decode", "lookup", "spawn", "gather", "aggregate", "kill", "delete"}
Exited == pc \in {"done", "raised", "cancelled"}

----------------------------------------------------------------------------
(* C1 (as amended): once the supervisor has reached aggregation, the       *)
(* judgment built is a PassedJudgment if and only if every verdict of the  *)
(* sequence has passed = true and carries both its memory usage and its    *)
(* elapsed time; the empty sequence is such a sequence.                    *)
C1_PassedIffAllPassedWithMetrics ==
    Aggregated =>
        /\ (aggResult = "passed") <=> AllPassedWithMetrics(verdicts)
        /\ (final.kind = "passed") <=> (aggResult = "passed")

(* C1 as stated: once the supervisor has reached aggregation, the          *)
(* judgment built is a PassedJudgment if and only if the verdict sequence  *)
(* is non-empty and every verdict in it has passed = true.                 *)
C1_PassedIffNonEmptyAllPassed ==
    Aggregated =>
        ((final.kind = "passed") <=> (Len(verdicts) > 0 /\ AllPassed(verdicts)))

C1_Witness ==
    /\ final.kind = "passed"
    /\ Len(verdicts) = 2
    /\ pc = "done"

(* C2: for every verdict sequence that holds a non-passing verdict the     *)
(* judgment is an UnpassedJudgment that carries the failureCause and the   *)
(* failureDetail of the earliest non-passing verdict, whatever comes       *)
(* before or after it; the detail is absent when that cause is             *)
(* WRONG_ANSWER.                                                           *)
C2_UnpassedCarriesEarliestFailure ==
    (jvOut # NoJudgment /\ Failing(jvIn) # {}) =>
        LET v == jvIn[Earliest(Failing(jvIn))] IN
        /\ jvOut.kind = "unpassed"
        /\ jvOut.failure_cause = v.failure_cause
        /\ jvOut.failure_detail = v.failure_detail
        /\ v.failure_cause = "WRONG_ANSWER" => jvOut.failure_detail = NoStr

(* C3: for a non-empty all-passing sequence the PassedJudgment carries the *)
(* greatest elapsedTimeMs and the greatest memory usage of its verdicts.   *)
C3_PassedCarriesMaxima ==
    (jvOut.kind = "passed" /\ jvIn # <<>>) =>
        /\ IsGreatest(jvOut.max_elapsed_time_ms,
                      { jvIn[i].elapsed_time_ms : i \in 1..Len(jvIn) })
        /\ IsGreatest(jvOut.max_memory_usage_mb,
                      { jvIn[i].memory_usage_mb : i \in 1..Len(jvIn) })

(* The spec's fixture: (50 ms, 1.5 MB) and (60 ms, 2.0 MB) give 60 and 2.0. *)
C3_Witness ==
    /\ jvOut.kind = "passed"
    /\ Len(jvIn) = 2
    /\ jvIn[1].elapsed_time_ms = 60 /\ jvIn[1].memory_usage_mb = 20
    /\ jvIn[2].elapsed_time_ms = 50 /\ jvIn[2].memory_usage_mb = 15
    /\ jvOut.max_elapsed_time_ms = 60
    /\ jvOut.max_memory_usage_mb = 20

(* C4 (as amended): if the cleanup event is set when the supervisor has    *)
(* finished waiting for the readers and the sandbox, it calls delete for   *)
(* the job, once: when the delete succeeds the record is gone and the      *)
(* supervisor returns; when the delete fails at each of its attempts its   *)
(* exception leaves async_execute_code and the record stays.  Either way   *)
(* no sandbox-level verdict is appended or dispatched and no judgment is   *)
(* built or emitted.                                                       *)
C4_CleanupSetCallsDelete ==
    cleanupAtCheck = "set" =>
        /\ deleteCalls = 1
        /\ \/ pc = "done" /\ failure = "none" /\ ~jobStored
           \/ pc = "raised" /\ failure = "delete" /\ jobStored
        /\ final = NoJudgment
        /\ finalCode = None
        /\ aggResult = "none"
        /\ ~sbSent
        /\ \A i \in 1..Len(verdicts) : verdicts[i].failure_cause \notin SandboxCauses

(* C4 as stated: with the cleanup event set at that moment the supervisor  *)
(* deletes the job record and returns, without a sandbox-level verdict and *)
(* without a judgment.                                                     *)
C4_CleanupSetMeansAbort ==
    cleanupAtCheck = "set" =>
        /\ pc = "done"
        /\ ~jobStored
        /\ final = NoJudgment
        /\ aggResult = "none"
        /\ ~sbSent
        /\ \A i \in 1..Len(verdicts) : verdicts[i].failure_cause \notin SandboxCauses

C4_Witness ==
    /\ cleanupAtCheck = "set"
    /\ pc = "raised"
    /\ failure = "delete"
    /\ jobStored
    /\ deleteCalls = 1
    /\ timedOut
    /\ perCaseFailed
    /\ AllPassed(verdicts) /\ verdicts # <<>>

(* C5 as stated: once a per-case dispatch has returned a status other than *)
(* 200 the sandbox is not alive, the cleanup flag is set, no final         *)
(* judgment is emitted from then on, and a supervisor that has left has    *)
(* deleted the job.                                                        *)
C5_FailedDispatchTearsDown ==
    [][ perCaseFailed =>
          /\ proc # "running"
          /\ cleanup
          /\ final' = final
          /\ (pc' \in {"done", "raised"} => deleteCalls' >= 1) ]_vars

(* C6 as stated: the first verdict passes and a per-case dispatch is       *)
(* refused: when the supervisor has left, the sandbox is dead, the job is  *)
(* deleted, an Error event was emitted and no final judgment was.          *)
C6_RefusedWebhookEmitsError ==
    (/\ pc \in {"done", "raised"}
     /\ perCaseFailed
     /\ verdicts # <<>> /\ verdicts[1].passed) =>
        /\ proc = "exited"
        /\ deleteCalls >= 1
        /\ errorsSent >= 1
        /\ final = NoJudgment

(* C7 as stated: after a non-200 response to the dispatch of the           *)
(* sandbox-level verdict no final judgment is emitted.                     *)
C7_SandboxVerdictRefusalTearsDown ==
    sbFailed => final = NoJudgment

(* C8 as stated: whenever a reader has raised, the sandbox is killed, the  *)
(* cleanup event is set and an Error event was dispatched.                 *)
C8_ReaderRaiseTearsDown ==
    \A s \in Streams :
        readerRaised[s] => (proc = "exited" /\ cleanup /\ errorsSent >= 1)

(* C9: a compileError or runtimeError line with an integer exitCode gives  *)
(* a failing verdict whose cause follows the table (124 timeout, 137 out   *)
(* of memory, anything else error, per phase), whose detail is the line's  *)
(* error string, and which has no testCaseIndex for compileError.          *)
C9_ExitCodeTable ==
    LET l == lineIn.line IN
    (/\ lineOut # Pending
     /\ lineIn.stream = "stdout"
     /\ l.kind = "object"
     /\ l.status \in {"compileError", "runtimeError"}
     /\ l.exitKind = "int") =>
        /\ lineOut.act = "verdict"
        /\ ~lineOut.verdict.passed
        /\ lineOut.verdict.failure_detail = l.error
        /\ lineOut.verdict.memory_usage_mb = None
        /\ lineOut.verdict.elapsed_time_ms = None
        /\ l.status = "compileError" =>
              /\ lineOut.verdict.test_case_index = None
              /\ lineOut.verdict.failure_cause =
                    CASE l.exitVal = 124 -> "COMPILE_TIMEOUT"
                      [] l.exitVal = 137 -> "COMPILE_OUT_OF_MEMORY"
                      [] OTHER -> "COMPILE_ERROR"
        /\ l.status = "runtimeError" =>
              /\ lineOut.verdict.test_case_index = l.testCaseIndex
              /\ lineOut.verdict.failure_cause =
                    CASE l.exitVal = 124 -> "RUNTIME_TIMEOUT"
                      [] l.exitVal = 137 -> "RUNTIME_OUT_OF_MEMORY"
                      [] OTHER -> "RUNTIME_ERROR"

C9_Witness ==
    /\ lineOut.act = "verdict"
    /\ lineIn.line.status = "compileError"
    /\ lineIn.line.exitKind = "int"
    /\ lineIn.line.exitVal = 124
    /\ lineIn.line.testCaseIndex = 2
    /\ lineOut.verdict.failure_cause = "COMPILE_TIMEOUT"
    /\ lineOut.verdict.failure_detail = "syntax error"

(* C10: when the verdict sequence holds a non-passing verdict parsed from  *)
(* the sandbox's output, no sandbox-level verdict is appended or           *)
(* dispatched, on deadline expiry as on exit code 137, and an              *)
(* UnpassedJudgment carries the cause of the earliest such verdict.        *)
C10_FirstFailureWins ==
    ParsedFailing(verdicts) # {} =>
        /\ ~sbSent
        /\ \A i \in 1..Len(verdicts) : verdicts[i].failure_cause \notin SandboxCauses
        /\ final.kind = "unpassed" =>
              final.failure_cause = verdicts[Earliest(ParsedFailing(verdicts))].failure_cause

C10_Witness ==
    /\ returncode = 137
    /\ ~timedOut
    /\ Len(verdicts) = 2
    /\ verdicts[1].passed
    /\ verdicts[2].failure_cause = "WRONG_ANSWER"
    /\ final.kind = "unpassed"
    /\ final.failure_cause = "WRONG_ANSWER"
    /\ pc = "done"

(* C11: after a deadline expiry that killed the sandbox, with the cleanup  *)
(* flag clear and no non-passing verdict recorded, exactly one             *)
(* SANDBOX_TIMEOUT verdict is appended, last, and dispatched, and a        *)
(* supervisor that has left by a return or an exception has emitted an     *)
(* UnpassedJudgment with cause SANDBOX_TIMEOUT.                            *)
C11_TimeoutAlwaysJudged ==
    (timedOut /\ cleanupAtCheck = "clear" /\ ParsedFailing(verdicts) = {}) =>
        /\ proc = "exited"
        /\ sbSent
        /\ Cardinality(WithCause(verdicts, "SANDBOX_TIMEOUT")) = 1
        /\ verdicts[Len(verdicts)] = SandboxTimeoutVerdict
        /\ pc \in {"done", "raised"} =>
              final = UnpassedJudgment("SANDBOX_TIMEOUT", SandboxTimeoutVerdict.failure_detail)

(* C12: after an exit with code 137 within the deadline, with the cleanup  *)
(* flag clear and every recorded verdict passed, exactly one               *)
(* SANDBOX_OUT_OF_MEMORY verdict is appended, last, and dispatched, and a  *)
(* supervisor that has left by a return or an exception has emitted an     *)
(* UnpassedJudgment with that cause; any other exit code appends nothing,  *)
(* and after a deadline expiry no SANDBOX_OUT_OF_MEMORY verdict is         *)
(* appended whatever the exit code.                                        *)
C12_OomAlwaysJudged ==
    /\ (~timedOut /\ cleanupAtCheck = "clear" /\ ParsedFailing(verdicts) = {}) =>
          IF returncode = 137
          THEN /\ sbSent
               /\ Cardinality(WithCause(verdicts, "SANDBOX_OUT_OF_MEMORY")) = 1
               /\ verdicts[Len(verdicts)] = SandboxOomVerdict
               /\ pc \in {"done", "raised"} =>
                     final = UnpassedJudgment("SANDBOX_OUT_OF_MEMORY",
                                              SandboxOomVerdict.failure_detail)
          ELSE /\ ~sbSent
               /\ \A i \in 1..Len(verdicts) : verdicts[i].failure_cause \notin SandboxCauses
    /\ timedOut => WithCause(verdicts, "SANDBOX_OUT_OF_MEMORY") = {}

(* C13: with no test case, a sandbox that has written nothing and exited   *)
(* with code 0 within the deadline (the wait has not run into it), a       *)
(* supervisor that has left has emitted a PassedJudgment whose two maxima  *)
(* are zero, and called delete for the job: it has returned with the       *)
(* record gone unless that delete raised.                                  *)
C13_NoTestCasePasses ==
    (/\ nTests = 0 /\ NoOutput /\ returncode = 0 /\ ~timedOut /\ failure # "kill"
     /\ pc \in {"done", "raised"}) =>
        /\ final = PassedJudgment(0, 0)
        /\ finalCode # None
        /\ deleteCalls = 1
        /\ pc = "done" => ~jobStored
        /\ pc = "raised" => failure = "delete"

C13_Witness ==
    /\ nTests = 0
    /\ NoOutput
    /\ returncode = 0
    /\ pc = "done"
    /\ final.kind = "passed"
    /\ final.max_memory_usage_mb = 0
    /\ final.max_elapsed_time_ms = 0

(* C14: when every verdict at aggregation is pass-marked and one of them   *)
(* lacks its memory usage or its elapsed time, the aggregation raises, no  *)
(* judgment is built or dispatched, and an Error event has been emitted    *)
(* for the job when the supervisor has left.                               *)
C14_MissingMetricsRaise ==
    (Aggregated /\ AllPassed(verdicts) /\ ~AllPassedWithMetrics(verdicts)) =>
        /\ aggResult = "raised"
        /\ final = NoJudgment
        /\ finalCode = None
        /\ Exited => errorsSent >= 1

(* C15: when an exception has left the supervisor (a failed decoding,      *)
(* lookup or spawn, an exception of a gathered task, of the aggregation,   *)
(* of the kill or of the delete), an Error event has been sent, no final   *)
(* judgment was emitted and the job record has been deleted.               *)
C15_SystemFailureReported ==
    (pc = "raised" /\ failure \in SystemFailures) =>
        /\ errorsSent >= 1
        /\ final = NoJudgment
        /\ finalCode = None
        /\ ~jobStored

(* C16 as stated: after the supervisor has left, by a return, an exception *)
(* or a cancellation, the scratch directory does not exist and the sandbox *)
(* process is not alive.                                                   *)
C16_NothingLeftBehind ==
    (Exited \/ pc = "raised") => (scratch # "present" /\ proc # "running")

(* C17 (as amended): after the supervisor has left, the job record has     *)
(* been deleted unless the supervisor raised before reaching the deletion  *)
(* or in it: a supervisor that has returned, after the final judgment was  *)
(* answered with any status or after an abort, has called delete exactly   *)
(* once and the record is gone; the record of a supervisor that has left   *)
(* otherwise is still there, delete was not called or has raised, and it   *)
(* is never called twice.                                                  *)
C17_DeletedUnlessRaised ==
    /\ deleteCalls <= 1
    /\ pc = "done" => (failure = "none" /\ deleteCalls = 1 /\ ~jobStored)
    /\ (Exited /\ pc # "done") =>
           /\ failure # "none"
           /\ jobStored
           /\ deleteCalls = IF failure = "delete" THEN 1 ELSE 0
    /\ ~Exited => (jobStored /\ deleteCalls = 0)

(* C17 as stated: after the supervisor has left, the job record has been   *)
(* deleted or the supervisor raised before it reached a deletion; a        *)
(* supervisor that has returned has called delete.                         *)
C17_DeletedUnlessRaisedBefore ==
    /\ pc = "done" => deleteCalls = 1
    /\ Exited => (~jobStored \/ (pc # "done" /\ deleteCalls = 0))

C17_Witness ==
    /\ pc = "done"
    /\ final.kind = "passed"
    /\ finalCode = 503
    /\ deleteCalls = 1
    /\ ~jobStored

(* C18 as stated: a per-case verdict built by the parser (pass, wrong      *)
(* answer, runtime error) carries a testCaseIndex between 1 and N.         *)
C18_IndexInRange ==
    (/\ lineOut # Pending
     /\ lineOut.act = "verdict"
     /\ lineIn.line.status # "compileError") =>
        lineOut.verdict.test_case_index \in 1..nTests

(* C19 as stated: the verdict sequence never holds more than N + 1         *)
(* verdicts.                                                               *)
C19_AtMostOnePerTestCase ==
    Len(verdicts) <= nTests + 1

(* C20: the sandbox deadline is N * T + compileBonus + 3 s, where T is the *)
(* challenge's time limit plus the language's bonus and compileBonus is    *)
(* 5 s for JAVA17, PYTHON3, C11 and CPP17 and 0 s for NODEJS20 and         *)
(* NODEJS20ESM (values in tenths of a second).                             *)
C20_DeadlineFormula ==
    dlOut # None =>
        dlOut = dlIn.n * (dlIn.base + dlIn.bonus)
                + (CASE dlIn.language = "JAVA17" -> 50
                     [] dlIn.language = "PYTHON3" -> 50
                     [] dlIn.language = "C11" -> 50
                     [] dlIn.language = "CPP17" -> 50
                     [] dlIn.language = "NODEJS20" -> 0
                     [] dlIn.language = "NODEJS20ESM" -> 0)
                + 30

(* One test case, T = 1 s, a compiled language: 9 s. *)
C20_Witness ==
    /\ dlIn.n = 1
    /\ dlIn.base = 10 /\ dlIn.bonus = 0
    /\ dlIn.language = "PYTHON3"
    /\ dlOut = 90

----------------------------------------------------------------------------
(* C21: a job whose stop_flag is set when the supervisor starts is not     *)
(* run: no sandbox is spawned and no judgment is emitted for it.           *)
C21_StoppedJobNotRun ==
    stopFlag => /\ proc = "none"
                /\ final = NoJudgment
                /\ finalCode = None

----------------------------------------------------------------------------
(* C22: in the queue task execute_code a run during which the cleanup      *)
(* event was set ends with the job deleted and without a final result      *)
(* event.                                                                  *)
C22_AbortedTaskSendsNoResult ==
    (task.cleanup /\ task.pc \in {"joined", "returned", "raised"})
        => /\ task.deletes >= 1
           /\ task.result = "none"

----------------------------------------------------------------------------
(* C23: every line a runner prints through print_verdict or                *)
(* print_system_error is classified by the parser as a verdict or as a     *)
(* systemError (which raises), never as unexpected output.                 *)
C23_RunnerLinesClassified ==
    runner.out # Pending => runner.out.act \in {"verdict", "raise"}

----------------------------------------------------------------------------
(* The endpoint the specification gives an event variant. *)
EndpointOf(event) ==
    CASE event = "TestCaseResult" -> "verdict"
      [] event \in {"PassedJudgment", "UnpassedJudgment"} -> "submission-result"
      [] OTHER -> "error"

(* C24: the endpoint is chosen by the event variant: TestCaseResult has    *)
(* its own, PassedJudgment and UnpassedJudgment share one, Error and       *)
(* JobCancellation share one.  Two posted events went to the same URL      *)
(* exactly when they belong to the same endpoint.                          *)
C24_EndpointByVariant ==
    \A p, q \in hook.sent : (EndpointOf(p[1]) = EndpointOf(q[1])) <=> (p[2] = q[2])

----------------------------------------------------------------------------
(* What the claim says a call returns for the outcome of its POST. *)
ExpectedCode(session, outcome) ==
    IF session # "open" \/ outcome = 0 THEN 500 ELSE outcome

(* C25 as amended: a call never retries and never raises.  On an open      *)
(* session it issues exactly one POST, on a session never initialised or   *)
(* already shut down it issues none; it returns the status of a 2xx        *)
(* response, the status code of any other response and 500 on a timeout,   *)
(* a transport error or a session that is not open.                        *)
C25_OnePostAtMostAndStatus ==
    hook.last.event # "none" =>
        /\ hook.last.posts = IF hook.last.session = "open" THEN 1 ELSE 0
        /\ hook.last.code = ExpectedCode(hook.last.session, hook.last.outcome)
        /\ hook.posts <= hook.calls

(* C25 as stated: every call issues exactly one POST. *)
C25_ExactlyOnePost ==
    hook.last.event # "none" =>
        /\ hook.last.posts = 1
        /\ hook.last.code = ExpectedCode(hook.last.session, hook.last.outcome)

C25_Witness ==
    /\ hook.calls = 2
    /\ hook.posts = 1
    /\ hook.pending = {}
    /\ hook.last.session = "closed"
    /\ hook.last.posts = 0
    /\ hook.last.code = 500

----------------------------------------------------------------------------
(* The attempts that raised before the first one that returned. *)
FailedBefore(o, k) == \A i \in 1..(k - 1) : o[i] \in Errors
FirstSuccess(o) == { k \in 1..Len(o) : o[k] \in Values /\ FailedBefore(o, k) }

(* C26: an operation run through _with_retry is attempted at most 3 times; *)
(* the result of the first successful attempt is returned with no further  *)
(* attempt; the waits between attempts are 0.5 s and then 1.0 s; when all  *)
(* 3 attempts fail the error of the operation propagates and no value is   *)
(* returned.                                                               *)
C26_BoundedRetry ==
    /\ retry.calls <= 3
    /\ Len(retry.sleeps) <= 2
    /\ \A i \in 1..Len(retry.sleeps) : retry.sleeps[i] = IF i = 1 THEN 5 ELSE 10
    /\ retry.result = "pending" => Len(retry.sleeps) = retry.calls
    /\ retry.result = "returned" =>
           \E k \in FirstSuccess(retry.outcomes) :
               /\ retry.value = retry.outcomes[k]
               /\ retry.calls = k
               /\ Len(retry.sleeps) = k - 1
    /\ retry.result = "raised" =>
           /\ FirstSuccess(retry.outcomes) = {}
           /\ retry.calls = 3
           /\ retry.sleeps = <<5, 10>>
           /\ retry.value = retry.outcomes[3]
    /\ (retry.calls = 3 /\ FirstSuccess(retry.outcomes) = {}) => retry.result = "raised"

C26_Witness ==
    /\ retry.result = "raised"
    /\ retry.calls = 3
    /\ retry.sleeps = <<5, 10>>
    /\ retry.outcomes = <<"e1", "e2", "e1">>
    /\ retry.value = "e1"

----------------------------------------------------------------------------
(* The steps of update that end the call, and what it wrote. *)
UpdateEnds == upd.pc \in {"find", "ttl", "save"} /\ upd'.pc \in {"returned", "raised"}
OnlyPatched ==
    /\ upd.patch.stop_flag = "keep" => store'.value.stopFlag = upd.seen.stopFlag
    /\ upd.patch.stop_flag # "keep" => store'.value.stopFlag = (upd.patch.stop_flag = "true")
    /\ upd.patch.verdicts = "keep" => store'.value.verdicts = upd.seen.verdicts
    /\ upd.patch.verdicts # "keep" => store'.value.verdicts = upd.patch.verdicts

(* C27: update on a job that is there writes it back, the record kept, with *)
(* only the patched fields changed and an expiry that is neither removed   *)
(* nor later than it was; it returns -1 and writes nothing when the job is *)
(* gone.                                                                   *)
C27_ExpiryNeverExtended ==
    [][UpdateEnds =>
         /\ (upd'.pc = "returned" /\ upd'.res = 1) =>
                /\ store'.present
                /\ OnlyPatched
                /\ store'.expireAt <= upd.ttlAt + upd.ttl_value
         /\ (upd'.pc = "returned" /\ upd'.res # 1) =>
                /\ upd'.res = -1
                /\ ~store.present
                /\ store' = store
         /\ upd'.pc # "raised"
    ]_vars

----------------------------------------------------------------------------
(* C28: delete of a record that is not there is a no-op: the store is left *)
(* as it was, nothing is raised and the count is 0; after any delete the   *)
(* record is gone, so repeating the deletion changes nothing more.         *)
C28_DeleteIdempotent ==
    [][dlt'.calls = dlt.calls + 1 =>
         /\ ~store'.present
         /\ ~dlt'.raised
         /\ ~store.present => (store' = store /\ dlt'.count = 0)
         /\ store.present => dlt'.count = 1
    ]_vars

C28_Witness ==
    /\ dlt.calls = 2
    /\ dlt.count = 0
    /\ ~dlt.raised
    /\ ~store.present
    /\ clock = 0

----------------------------------------------------------------------------
(* The keys and the cause of the dict that as_dict gives for v. *)
CamelKeys ==
    { <<"p", "a", "s", "s", "e", "d">>,
      <<"t", "e", "s", "t", "C", "a", "s", "e", "I", "n", "d", "e", "x">>,
      <<"m", "e", "m", "o", "r", "y", "U", "s", "a", "g", "e", "M", "b">>,
      <<"e", "l", "a", "p", "s", "e", "d", "T", "i", "m", "e", "M", "s">>,
      <<"f", "a", "i", "l", "u", "r", "e", "C", "a", "u", "s", "e">>,
      <<"f", "a", "i", "l", "u", "r", "e", "D", "e", "t", "a", "i", "l">> }
DictItems(d) == { d[i] : i \in DOMAIN d }
DictCause(d) == (CHOOSE item \in DictItems(d) : item[1] = <<"f", "a", "i", "l", "u", "r", "e", "C", "a", "u", "s", "e">>)[2]

(* C29: for every Verdict, passing with index and metrics or failing with  *)
(* any FailureCause and optional index and detail, as_dict gives a dict    *)
(* with the camelCase keys and the cause as its string value, and          *)
(* Verdict.create_from_dict of that dict gives a Verdict equal to the      *)
(* first.                                                                  *)
C29_VerdictRoundTrip ==
    /\ rt.pc \in {"dict", "created"} =>
          /\ { item[1] : item \in DictItems(rt.d) } = CamelKeys
          /\ Len(rt.d) = 6
          /\ rt.v.failure_cause.t = "FailureCause" =>
                 DictCause(rt.d) = VStr(rt.v.failure_cause.s)
          /\ rt.v.failure_cause.t # "FailureCause" => DictCause(rt.d) = rt.v.failure_cause
    /\ rt.pc = "created" => (rt.back.kind = "ok" /\ rt.back.v = rt.v)

C29_Witness ==
    /\ rt.pc = "created"
    /\ rt.back.kind = "ok"
    /\ rt.v = PyVerdict(VBool(FALSE), VNum(2), VNone, VNone, VEnum("RUNTIME_OUT_OF_MEMORY"),
                        VStr("syntax error"))
    /\ rt.back.v.failure_cause = VEnum("RUNTIME_OUT_OF_MEMORY")
    /\ <<<<"m", "e", "m", "o", "r", "y", "U", "s", "a", "g", "e", "M", "b">>, VNone>> \in DictItems(rt.d)

----------------------------------------------------------------------------
(* C30: the final judgment is dispatched only after every per-case         *)
(* TestCaseResult dispatch scheduled for the job has completed, those the  *)
(* readers schedule after the sandbox has exited or has been killed at the *)
(* deadline included: while the dispatch of the judgment is under way no   *)
(* handler of a per-case dispatch is pending.                              *)
C30_FinalAfterPerCaseDispatches ==
    pc = "final" => \A i \in 1..Len(handlers) : handlers[i] = "done"

----------------------------------------------------------------------------
(* C31: a verdict is appended to the verdict sequence in the step that     *)
(* schedules its TestCaseResult dispatch and before that dispatch has      *)
(* completed; the reader goes on reading without waiting for it; the       *)
(* sandbox's stdout is read first in, first out, each verdict being that   *)
(* of the oldest unread line and going to the end of the sequence, so the  *)
(* sequence is in the order of production.                                 *)
C31_VerdictsInProductionOrder ==
    [][/\ Len(pipe'["stdout"]) > Len(pipe["stdout"]) =>
              SubSeq(pipe'["stdout"], 1, Len(pipe["stdout"])) = pipe["stdout"]
       /\ Len(handlers') > Len(handlers) =>
              /\ pipe["stdout"] # <<>>
              /\ HandleLine("stdout", Head(pipe["stdout"])).act = "verdict"
              /\ verdicts' = Append(verdicts, HandleLine("stdout", Head(pipe["stdout"])).verdict)
              /\ handlers' = Append(handlers, NewHandler)
              /\ pipe'["stdout"] = Tail(pipe["stdout"])
              /\ rstate'["stdout"] = "reading"
       /\ verdicts' # verdicts =>
              \/ Len(handlers') > Len(handlers)
              \/ /\ pc = "gather" /\ pc' = "sbverdict"
                 /\ SubSeq(verdicts', 1, Len(verdicts)) = verdicts
      ]_vars

C31_Witness ==
    /\ verdicts = <<PassedVerdict(PassA), StatusVerdict(RuntimeErr)>>
    /\ handlers = <<"pending", "pending">>
    /\ rstate["stdout"] = "reading"
    /\ proc = "running"

----------------------------------------------------------------------------
(* A line the parser takes for non-empty: it decodes and is not blank. *)
NonEmptyLine(l) == l.kind \notin {"blank", "undecodable"}

(* The sandbox has written to stderr something other than blank lines. *)
StderrCarried ==
    \/ unexpected["stderr"] # <<>>
    \/ \E i \in 1..Len(pipe["stderr"]) : pipe["stderr"][i].kind # "blank"

(* C32: only the stdout reader appends verdicts: a step that takes a line  *)
(* from stderr leaves the verdict sequence and the dispatches as they are, *)
(* and a non-empty line, a well-formed verdict line included, goes to the  *)
(* unexpected output of stderr; a job whose stderr carried such a line     *)
(* gets no final judgment.                                                 *)
C32_StderrNeverJudged ==
    [][/\ Len(pipe'["stderr"]) < Len(pipe["stderr"]) =>
              /\ verdicts' = verdicts
              /\ handlers' = handlers
              /\ NonEmptyLine(Head(pipe["stderr"])) =>
                     unexpected'["stderr"] = Append(unexpected["stderr"], Head(pipe["stderr"]))
       /\ Len(verdicts') > Len(verdicts) =>
              \/ Len(pipe'["stdout"]) < Len(pipe["stdout"])
              \/ pc = "gather" /\ proc = "exited"
       /\ StderrCarried' => final' = NoJudgment
      ]_vars

C32_Witness ==
    /\ unexpected["stderr"] = <<PassA>>
    /\ verdicts = <<PassedVerdict(PassA)>>
    /\ pipe["stdout"] = <<>>
    /\ pc = "done"
    /\ final = NoJudgment
    /\ deleteCalls = 1

----------------------------------------------------------------------------
(* C33: the classification of a non-empty stdout line: no JSON or no       *)
(* object is unexpected output; an object with a string status goes by its *)
(* status, systemError raising and compileError and runtimeError giving a  *)
(* failing verdict, whatever passed is; otherwise an object with a boolean *)
(* passed gives a passing verdict or a WRONG_ANSWER verdict; anything      *)
(* else, an object with another string status included, is unexpected      *)
(* output and gives no verdict.                                            *)
C33_StdoutClassification ==
    (lineOut # Pending /\ lineIn.stream = "stdout" /\ NonEmptyLine(lineIn.line)) =>
        LET l == lineIn.line IN
        IF l.kind # "object" THEN lineOut = Unexpected
        ELSE IF l.status = "systemError" THEN lineOut = Raise
        ELSE IF l.status \in {"compileError", "runtimeError"}
        THEN lineOut.act = "verdict" /\ ~lineOut.verdict.passed
        ELSE IF IsStr(l.status) THEN lineOut = Unexpected
        ELSE IF IsBool(l.passed)
        THEN /\ lineOut.act = "verdict"
             /\ lineOut.verdict.passed = (l.passed = "true")
             /\ ~lineOut.verdict.passed => lineOut.verdict.failure_cause = "WRONG_ANSWER"
        ELSE lineOut = Unexpected

----------------------------------------------------------------------------
(* A stream of the sandbox carried a line that is unexpected output. *)
CarriedUnexpected ==
    \E s \in Streams :
        \/ unexpected[s] # <<>>
        \/ \E i \in 1..Len(pipe[s]) : HandleLine(s, pipe[s][i]).act = "unexpected"

(* C34: unexpected output does not stop parsing: the reader keeps the line *)
(* and goes on reading, and a verdict line that follows is appended and    *)
(* dispatched; the reader raises for its unexpected output once, at the    *)
(* end of its stream, with every line it has kept; a job one of whose      *)
(* streams carried an unexpected line gets no final judgment.              *)
C34_UnexpectedRaisedAtClose ==
    [][/\ \A s \in Streams :
            /\ unexpected'[s] # unexpected[s] =>
                   /\ unexpected'[s] = Append(unexpected[s], Head(pipe[s]))
                   /\ rstate'[s] = "reading"
                   /\ readerRaised'[s] = FALSE
            /\ (rstate[s] = "reading" /\ pipe[s] # <<>> /\ pipe'[s] = Tail(pipe[s])
                  /\ HandleLine(s, Head(pipe[s])).act = "verdict") =>
                   /\ verdicts' = Append(verdicts, HandleLine(s, Head(pipe[s])).verdict)
                   /\ handlers' = Append(handlers, NewHandler)
            /\ (readerRaised'[s] /\ ~readerRaised[s]) =>
                   \/ pipe[s] # <<>> /\ HandleLine(s, Head(pipe[s])).act = "raise"
                   \/ ~pipeOpen[s] /\ pipe[s] = <<>> /\ unexpected[s] # <<>>
            /\ (rstate[s] = "reading" /\ rstate'[s] = "done") => unexpected[s] = <<>>
            /\ readerRaised[s] => (rstate[s] # "reading" /\ rstate'[s] # "reading")
       /\ CarriedUnexpected' => final' = NoJudgment
      ]_vars

C34_Witness ==
    /\ unexpected["stdout"] = <<Junk>>
    /\ verdicts = <<PassedVerdict(PassA)>>
    /\ handlers = <<"done">>
    /\ readerRaised["stdout"]
    /\ errorsSent = 1
    /\ pc = "done"
    /\ final = NoJudgment

----------------------------------------------------------------------------
(* C35: at most one Error event is emitted for a job, also when both       *)
(* readers raise in the same run.                                          *)
C35_AtMostOneError == errorsSent <= 1

----------------------------------------------------------------------------
(* C36: for one job a final judgment and an Error event are never both     *)
(* emitted and at most one final judgment is emitted, whatever the         *)
(* interleaving of readers, response handlers and supervisor: when a       *)
(* judgment is handed to the dispatcher no Error has been emitted and none *)
(* is emitted afterwards, the judgment is not replaced, and it is          *)
(* dispatched once.                                                        *)
C36_JudgmentOrErrorNotBoth ==
    [][/\ final' # NoJudgment => errorsSent' = 0
       /\ final # NoJudgment => final' = final
       /\ final' # final => (pc = "gather" \/ pc = "sbverdict") /\ pc' = "final"
       /\ finalCode' # finalCode => (pc = "final" /\ final # NoJudgment /\ finalCode = None)
       /\ finalCode # None => final # NoJudgment
      ]_vars

C36_Witness ==
    /\ pc = "raised"
    /\ failure = "delete"
    /\ final.kind = "passed"
    /\ finalCode = 200
    /\ errorsSent = 0
    /\ verdicts = <<PassedVerdict(PassA)>>
    /\ handlers = <<"done">>

----------------------------------------------------------------------------
(* C37: a PassedJudgment is emitted only when the verdict sequence holds a *)
(* passing verdict for each of the job's N test cases.                     *)
C37_PassedCoversEveryTestCase ==
    final.kind = "passed" =>
        \A k \in 1..nTests :
            \E i \in 1..Len(verdicts) : verdicts[i].passed /\ verdicts[i].test_case_index = k

----------------------------------------------------------------------------
(* C38: an update that runs concurrently with delete or with the expiry of *)
(* the key never re-creates the record: a write of update finds the key    *)
(* it read still there, and a key that has been removed stays absent.      *)
C38_UpdateNeverRecreates ==
    [][(upd.pc = "save" /\ upd'.pc # "save") => (~store.present => ~store'.present)]_vars

----------------------------------------------------------------------------
(* The verdicts a runner has emitted, in their order. *)
IsVerdictCall(c) == c.fn = "print_verdict"
Emitted == SelectSeq(run.out, IsVerdictCall)
RunnerOrder(vs) ==
    /\ \A i \in 1..Len(vs) : vs[i].test_case_index # None => vs[i].test_case_index = i
    /\ \A i \in 1..Len(vs) : vs[i].test_case_index = None =>
           (~vs[i].passed /\ vs[i].runtime_error = NoStr /\ vs[i].memory_used_mb = None)
    /\ \A i \in 1..Len(vs) : ~vs[i].passed => i = Len(vs)
    /\ \A i \in 1..Len(vs) : ~vs[i].passed => (run.pc = "exited" /\ run.code = 0)

(* C39 as amended: a runner executes the test cases in the order given and *)
(* reports testCaseIndex = position, strictly increasing from 1; it stops  *)
(* at the first compile error, runtime error or wrong answer, so at most   *)
(* one verdict is not a pass and it is the last one.  It emits at most N   *)
(* verdicts for the test cases; the verdict of a failed compilation        *)
(* carries no index, is the only verdict of its run and is emitted also    *)
(* when N = 0.                                                             *)
C39_RunnerStopsAtFirstFailure ==
    /\ RunnerOrder(Emitted)
    /\ Len(SelectSeq(Emitted, LAMBDA c : c.test_case_index # None)) <= run.n
    /\ \A i \in 1..Len(Emitted) : Emitted[i].test_case_index = None => Len(Emitted) = 1
    /\ Len(Emitted) <= (IF run.n = 0 THEN 1 ELSE run.n)

(* C39 as stated: the same with at most N verdicts in any run. *)
C39_AtMostNVerdicts ==
    /\ RunnerOrder(Emitted)
    /\ Len(Emitted) <= run.n

C39_Witness ==
    /\ run.pc = "exited"
    /\ run.lang = "java17"
    /\ run.n = 2
    /\ run.code = 0
    /\ Len(run.out) = 2
    /\ run.out[1].passed /\ run.out[1].test_case_index = 1
    /\ ~run.out[2].passed /\ run.out[2].test_case_index = 2
    /\ run.out[2].runtime_error = NoStr

----------------------------------------------------------------------------
(* The supervisor has returned or raised. *)
Ended == pc \in {"done", "raised", "cancelled"}

(* C40: under fair scheduling every invocation of async_execute_code       *)
(* returns or raises, whatever the sandbox does: the wait ends at the      *)
(* deadline at the latest and leaves the sandbox killed, after the wait    *)
(* both readers reach the end of their stream, and every dispatch that     *)
(* gather awaits completes.                                                *)
C40_EventuallyReturnsOrRaises ==
    /\ <>Ended
    /\ [](timedOut => proc = "exited")
    /\ (pc = "gather") ~> (Ended \/ \A s \in Streams : rstate[s] # "reading")
    /\ (pc = "gather") ~> (Ended \/ \A i \in 1..snapshot : handlers[i] = "done")

C40_Witness ==
    /\ pc = "done"
    /\ timedOut
    /\ returncode = -9
    /\ \A s \in Streams : rstate[s] = "done"
    /\ Len(handlers) > 0

====
